---- MODULE Spec2Model ----
(***************************************************************************)
(* Temporal event and session subsystem of the voice-agent backend:        *)
(*   - delay-handler.js            pendingDelays and its lazy expiry       *)
(*   - memory-manager (reminders)  timeContextManager, sessionManager      *)
(*   - the express handlers that call them                                 *)
(*                                                                         *)
(* Epoch-millisecond values are kept as a pair (whole seconds,             *)
(* milliseconds 0..999) so that values such as durationInSeconds * 1000    *)
(* stay exact beyond 2^31 (JavaScript numbers do not wrap there).          *)
(* The wall clock is taken to be monotonic.                                *)
(***************************************************************************)
EXTENDS Integers, Sequences, FiniteSets, Bags, TLC

\* ---------------------------------------------------------------- bounds
MaxSec == 2            \* the delay tracker's clock runs over 0..MaxSec whole seconds
MaxReminderSec == 1    \* the reminder scheduler's clock runs over 0..MaxReminderSec seconds
MaxMs == 1             \* and 0..MaxMs milliseconds within a second
MaxDelaySeconds == 1   \* delaySeconds arguments 0..MaxDelaySeconds
MaxReminders == 2      \* setReminder calls (reminder ids 1..MaxReminders)
MaxSessions == 2       \* createSession calls (session ids 1..MaxSessions)
MaxSessionSec == 1     \* with sessions and reminders, the clock runs over 0..MaxSessionSec seconds
MaxSessionReminders == 1 \* setReminder calls made beside the session registry
MaxCalls == 2          \* requests suspended at an await at the same time
MaxMemories == 2       \* /api/store-conversation requests (memory ids 1..MaxMemories)
MaxInteractions == 1   \* plain updateSession calls are made below this count
MaxReminderSeconds == 1 \* durationInSeconds arguments: 0, MaxReminderSeconds and the long one
MaxUpdateCalls == 3    \* updateSession calls that supply `interactions` are made below this count

\* ------------------------------------------------------ program constants
MsPerSec == 1000       \* "* 1000", "/ 1000"
\* setTimeout keeps its delay in a signed 32-bit integer: a delay above
\* TIMEOUT_MAX milliseconds, or below 1, is set to 1
TIMEOUT_MAX == 2147483647

\* ------------------------------------------------------------------ time
Time(s, ms) == [s |-> s, ms |-> ms]

\* a <= b on epoch milliseconds
TLeq(a, b) == a.s < b.s \/ (a.s = b.s /\ a.ms <= b.ms)

\* moment().add(d, 'seconds')
AddSeconds(t, d) == [s |-> t.s + d, ms |-> t.ms]

\* t + m milliseconds
AddMs(t, m) == [s |-> t.s + ((t.ms + m) \div MsPerSec), ms |-> (t.ms + m) % MsPerSec]

\* a - b in milliseconds
DiffMs(a, b) == (a.s - b.s) * MsPerSec + (a.ms - b.ms)

\* Math.ceil(a / b) for b > 0, a of either sign
Ceil(a, b) == -((-a) \div b)

\* the session keys callers pass to the delay tracker: any strings, the store
\* keeps one independent record per key
DelaySessionIds == {1, 2}
DelayDurations == 0..MaxDelaySeconds

\* "remind me in 600 hours to ...": amount * 60 * 60 seconds
LongReminderSeconds == 600 * 60 * 60
ReminderDurations == {0, MaxReminderSeconds, LongReminderSeconds}
\* the session keys callers pass to the reminder scheduler
ReminderSessionIds == {1, 2}
Users == {"u1"}
Tasks == {"check rice"}

VARIABLES
  now,              \* the wall clock, moment().valueOf()
  pendingDelays,    \* delay-handler.js: Map sessionId -> delay
  sawInactive,      \* history: sessions whose hasActiveDelay returned false since their last createDelay
  activeReminders,  \* timeContextManager.activeReminders: Map reminderId -> reminder
  timers,           \* the pending setTimeout of each reminder: reminderId -> earliest firing time
  nextReminderId,   \* uuidv4(): reminder ids are fresh
  onTriggerCalls,   \* history: reminderId -> number of times its callback was invoked
  cancelled,        \* history: reminderId -> whether its duration had elapsed, for the reminders
                    \* cleared while their timer callback had not run
  activeSessions,   \* sessionManager.activeSessions: Map sessionId -> session
  nextSessionId,    \* uuidv4(): session ids are fresh
  endedSessions,    \* history: the session ids endSession has removed
  calls,            \* the async calls suspended at an await: a bag of call records
  nextMemoryId,     \* the ids the memory store (or uuidv4) gives its results
  updateCalls,      \* history, for each live session: the updateSession calls made on it
                    \* since createSession, and whether one of them supplied `interactions`
  activeConversations, \* part_001: Map sessionId -> conversation
  returned,         \* history: reminderId -> the number of /api/check-reminders responses
                    \* that held it
  lastOp            \* history: the last call and what it returned

delayVars == <<pendingDelays, sawInactive>>
reminderVars == <<activeReminders, timers, nextReminderId, onTriggerCalls, cancelled>>
sessionVars == <<activeSessions, nextSessionId, endedSessions, calls, nextMemoryId, updateCalls>>
handlerVars == <<activeConversations, returned>>
vars == <<now, pendingDelays, sawInactive, activeReminders, timers, nextReminderId,
          onTriggerCalls, cancelled, activeSessions, nextSessionId, endedSessions,
          calls, nextMemoryId, updateCalls, activeConversations, returned, lastOp>>

NoTime == Time(-1, 0)
OpDefaults ==
  [op |-> "init", sid |-> 0, rid |-> 0, ok |-> TRUE, val |-> 0, at |-> NoTime,
   ids |-> << >>, err |-> FALSE, storeFailed |-> FALSE, prior |-> FALSE,
   override |-> FALSE, text |-> << >>, messages |-> << >>]
\* prior: createDelay found a record of the session to replace;
\*        completeReminder found the reminder already completed
\* override: updateSession was given `interactions` (val) in its updates
\* text: the message a parsing call was given
\* messages: the transcript /api/store-conversation was given
\* a record of the last call: the fields given, the others at their defaults
Op(f) == f @@ OpDefaults

\* the elements of a set of integers in increasing order
RECURSIVE SortedSeq(_)
SortedSeq(S) ==
  IF S = {} THEN << >>
  ELSE LET m == CHOOSE x \in S : \A y \in S : x <= y
       IN <<m>> \o SortedSeq(S \ {m})

Range(q) == {q[i] : i \in DOMAIN q}

\* --------------------------------------------------------------- the clock
\* Time passes: one millisecond.
TickMs ==
  /\ now.ms < MaxMs
  /\ now' = AddMs(now, 1)
  /\ UNCHANGED <<delayVars, reminderVars, sessionVars, handlerVars, lastOp>>

\* Time passes: one second.
TickSecond(maxSec) ==
  /\ now.s < maxSec
  /\ now' = AddSeconds(now, 1)
  /\ UNCHANGED <<delayVars, reminderVars, sessionVars, handlerVars, lastOp>>

\* Time passes: up to the start of the next second.
TickNextSecond(maxSec) ==
  /\ now.s < maxSec
  /\ now' = Time(now.s + 1, 0)
  /\ UNCHANGED <<delayVars, reminderVars, sessionVars, handlerVars, lastOp>>

\* the clock readings a later moment() of the same call may give
LaterReadings(t) == {t} \cup (IF t.ms < MaxMs THEN {AddMs(t, 1)} ELSE {})

\* ------------------------------------------------------- delay-handler.js
\* mutant: delaySeconds is not added, the delay ends when it starts
createDelayNoDuration(sessionId, delaySeconds, t1, t2) ==
  [sessionId |-> sessionId,
   delaySeconds |-> delaySeconds,
   startTime |-> t1,
   endTime |-> t2,
   isActive |-> TRUE]

\* createDelay(sessionId, delaySeconds): `now` and `delayUntil` are two clock
\* readings, t1 <= t2.
createDelay(sessionId, delaySeconds, t1, t2) ==
  [sessionId |-> sessionId,
   delaySeconds |-> delaySeconds,
   startTime |-> t1,
   endTime |-> AddSeconds(t2, delaySeconds),
   isActive |-> TRUE]

\* mutant: the query marks the expired record of every session
hasActiveDelayExpireAll(delays, sessionId, t) ==
  LET swept == [k \in DOMAIN delays |->
                  IF TLeq(delays[k].endTime, t)
                    THEN [delays[k] EXCEPT !.isActive = FALSE]
                    ELSE delays[k]]
  IN [result |-> sessionId \in DOMAIN swept /\ swept[sessionId].isActive,
      delays |-> swept]

\* hasActiveDelay(sessionId) read at clock t: the value returned and the store left
hasActiveDelay(delays, sessionId, t) ==
  IF sessionId \notin DOMAIN delays
    THEN [result |-> FALSE, delays |-> delays]
  ELSE IF ~delays[sessionId].isActive
    THEN [result |-> FALSE, delays |-> delays]
  ELSE IF TLeq(delays[sessionId].endTime, t)
    THEN [result |-> FALSE,
          delays |-> [delays EXCEPT ![sessionId].isActive = FALSE]]
  ELSE [result |-> TRUE, delays |-> delays]

\* mutant: no expiry handling, the remaining time is always computed
getRemainingDelayTimeUnguarded(delays, sessionId, t) ==
  IF sessionId \notin DOMAIN delays
    THEN [result |-> 0, delays |-> delays]
  ELSE [result |-> Ceil(DiffMs(delays[sessionId].endTime, t), MsPerSec),
        delays |-> delays]

\* mutant: Math.floor in place of Math.ceil
getRemainingDelayTimeFloor(delays, sessionId, t) ==
  IF sessionId \notin DOMAIN delays
    THEN [result |-> 0, delays |-> delays]
  ELSE IF ~delays[sessionId].isActive
    THEN [result |-> 0, delays |-> delays]
  ELSE IF TLeq(delays[sessionId].endTime, t)
    THEN [result |-> 0,
          delays |-> [delays EXCEPT ![sessionId].isActive = FALSE]]
  ELSE [result |-> DiffMs(delays[sessionId].endTime, t) \div MsPerSec,
        delays |-> delays]

\* getRemainingDelayTime(sessionId) read at clock t
getRemainingDelayTime(delays, sessionId, t) ==
  IF sessionId \notin DOMAIN delays
    THEN [result |-> 0, delays |-> delays]
  ELSE IF ~delays[sessionId].isActive
    THEN [result |-> 0, delays |-> delays]
  ELSE IF TLeq(delays[sessionId].endTime, t)
    THEN [result |-> 0,
          delays |-> [delays EXCEPT ![sessionId].isActive = FALSE]]
  ELSE [result |-> Ceil(DiffMs(delays[sessionId].endTime, t), MsPerSec),
        delays |-> delays]

\* clearDelay(sessionId)
clearDelay(delays, sessionId) ==
  [result |-> sessionId \in DOMAIN delays,
   delays |-> [k \in DOMAIN delays \ {sessionId} |-> delays[k]]]

CreateDelayCall(S, d) ==
  \E t2 \in LaterReadings(now) :
    /\ pendingDelays' = (S :> createDelay(S, d, now, t2)) @@ pendingDelays
    /\ now' = t2
    /\ sawInactive' = sawInactive \ {S}
    /\ lastOp' = Op([op |-> "createDelay", sid |-> S, val |-> d, at |-> now,
                     prior |-> S \in DOMAIN pendingDelays])
    /\ UNCHANGED <<reminderVars, sessionVars, handlerVars>>

HasActiveDelayCall(S) ==
  LET r == hasActiveDelay(pendingDelays, S, now) IN
    /\ pendingDelays' = r.delays
    /\ sawInactive' = IF r.result THEN sawInactive ELSE sawInactive \cup {S}
    /\ lastOp' = Op([op |-> "hasActiveDelay", sid |-> S, ok |-> r.result, at |-> now])
    /\ UNCHANGED <<now, reminderVars, sessionVars, handlerVars>>

GetRemainingDelayTimeCall(S) ==
  LET r == getRemainingDelayTime(pendingDelays, S, now) IN
    /\ pendingDelays' = r.delays
    /\ lastOp' = Op([op |-> "getRemainingDelayTime", sid |-> S, val |-> r.result, at |-> now])
    /\ UNCHANGED <<now, sawInactive, reminderVars, sessionVars, handlerVars>>

ClearDelayCall(S) ==
  LET r == clearDelay(pendingDelays, S) IN
    /\ pendingDelays' = r.delays
    /\ lastOp' = Op([op |-> "clearDelay", sid |-> S, ok |-> r.result, at |-> now])
    /\ UNCHANGED <<now, sawInactive, reminderVars, sessionVars, handlerVars>>

\* --------------------------------- timeContextManager (reminder scheduler)
\* setTimeout(cb, durationInSeconds * 1000) called at clock t: the earliest
\* time the callback runs
TimeoutDue(t, durationInSeconds) ==
  IF durationInSeconds > TIMEOUT_MAX \div MsPerSec \/ durationInSeconds < 1
    THEN AddMs(t, 1)
    ELSE AddSeconds(t, durationInSeconds)

\* setReminder(sessionId, userId, task, durationInSeconds, callback) at clock t,
\* with reminderId the fresh uuid. now.add(...) moves `now` itself, so
\* createdAt is read after the move.
setReminder(rems, tms, reminderId, sessionId, userId, task, durationInSeconds, t) ==
  [reminders |->
     (reminderId :>
        [id |-> reminderId,
         sessionId |-> sessionId,
         userId |-> userId,
         task |-> task,
         createdAt |-> AddSeconds(t, durationInSeconds),
         reminderTime |-> AddSeconds(t, durationInSeconds),
         durationInSeconds |-> durationInSeconds,
         isCompleted |-> FALSE,
         wasTriggered |-> FALSE]) @@ rems,
   timers |-> (reminderId :> TimeoutDue(t, durationInSeconds)) @@ tms]

\* mutant: the callback does not look at isCompleted
timerCallbackIgnoreCompleted(rems, reminderId) ==
  IF reminderId \in DOMAIN rems
    THEN [reminders |-> [rems EXCEPT ![reminderId].wasTriggered = TRUE],
          invoked |-> TRUE]
    ELSE [reminders |-> rems, invoked |-> FALSE]

\* the setTimeout callback of reminder reminderId
timerCallback(rems, reminderId) ==
  IF reminderId \in DOMAIN rems /\ ~rems[reminderId].isCompleted
    THEN [reminders |-> [rems EXCEPT ![reminderId].wasTriggered = TRUE],
          invoked |-> TRUE]
    ELSE [reminders |-> rems, invoked |-> FALSE]

\* mutant: completed reminders are returned too
getPendingRemindersKeepCompleted(rems, sessionId, t) ==
  SortedSeq({id \in DOMAIN rems :
               /\ rems[id].sessionId = sessionId
               /\ TLeq(rems[id].reminderTime, t)
               /\ rems[id].wasTriggered})

\* getPendingReminders(sessionId) read at clock t: the ids of the reminders
\* returned, in Map (creation) order
getPendingReminders(rems, sessionId, t) ==
  SortedSeq({id \in DOMAIN rems :
               /\ rems[id].sessionId = sessionId
               /\ ~rems[id].isCompleted
               /\ TLeq(rems[id].reminderTime, t)
               /\ rems[id].wasTriggered})

\* mutant: isCompleted is toggled
completeReminderToggle(rems, reminderId) ==
  IF reminderId \in DOMAIN rems
    THEN [result |-> TRUE,
          reminders |-> [rems EXCEPT ![reminderId].isCompleted = ~rems[reminderId].isCompleted]]
    ELSE [result |-> FALSE, reminders |-> rems]

\* mutant: a reminder that is already completed is refused
completeReminderOnce(rems, reminderId) ==
  IF reminderId \in DOMAIN rems /\ ~rems[reminderId].isCompleted
    THEN [result |-> TRUE,
          reminders |-> [rems EXCEPT ![reminderId].isCompleted = TRUE]]
    ELSE [result |-> FALSE, reminders |-> rems]

\* mutant: true is returned for an unknown id too
completeReminderUnknownTrue(rems, reminderId) ==
  IF reminderId \in DOMAIN rems
    THEN [result |-> TRUE,
          reminders |-> [rems EXCEPT ![reminderId].isCompleted = TRUE]]
    ELSE [result |-> TRUE, reminders |-> rems]

\* completeReminder(reminderId)
completeReminder(rems, reminderId) ==
  IF reminderId \in DOMAIN rems
    THEN [result |-> TRUE,
          reminders |-> [rems EXCEPT ![reminderId].isCompleted = TRUE]]
    ELSE [result |-> FALSE, reminders |-> rems]

\* mutant: the timers are cleared, the records are not deleted
clearSessionRemindersNoDelete(rems, tms, sessionId) ==
  [reminders |-> rems,
   timers |-> [id \in {i \in DOMAIN tms : ~(i \in DOMAIN rems /\ rems[i].sessionId = sessionId)}
                 |-> tms[id]]]

\* mutant: the reminders of every session are cleared
clearSessionRemindersEverySession(rems, tms, sessionId) ==
  [reminders |-> [id \in {} |-> rems[id]],
   timers |-> [id \in DOMAIN tms \ DOMAIN rems |-> tms[id]]]

\* clearSessionReminders(sessionId): clearTimeout and delete for each reminder
\* of the session
clearSessionReminders(rems, tms, sessionId) ==
  [reminders |-> [id \in {i \in DOMAIN rems : rems[i].sessionId # sessionId} |-> rems[id]],
   timers |-> [id \in {i \in DOMAIN tms : ~(i \in DOMAIN rems /\ rems[i].sessionId = sessionId)}
                 |-> tms[id]]]

\* history: the reminders of sessionId whose callback has not run, each with
\* whether its timer is already due
CancelledBy(rems, tms, sessionId, t) ==
  [id \in {i \in DOMAIN rems \cap DOMAIN tms : rems[i].sessionId = sessionId}
     |-> TLeq(tms[id], t)]

SetReminderCall(S, u, task, d) ==
  /\ nextReminderId <= MaxReminders
  /\ LET r == setReminder(activeReminders, timers, nextReminderId, S, u, task, d, now) IN
       /\ activeReminders' = r.reminders
       /\ timers' = r.timers
  /\ onTriggerCalls' = (nextReminderId :> 0) @@ onTriggerCalls
  /\ lastOp' = Op([op |-> "setReminder", sid |-> S, rid |-> nextReminderId])
  /\ nextReminderId' = nextReminderId + 1
  /\ UNCHANGED <<now, delayVars, sessionVars, handlerVars, cancelled>>

\* A due timer fires and its callback runs.
TimerFire(id) ==
  /\ id \in DOMAIN timers
  /\ TLeq(timers[id], now)
  /\ LET r == timerCallback(activeReminders, id) IN
       /\ activeReminders' = r.reminders
       /\ onTriggerCalls' =
            IF r.invoked THEN [onTriggerCalls EXCEPT ![id] = @ + 1] ELSE onTriggerCalls
       /\ lastOp' = Op([op |-> "timer", rid |-> id, ok |-> r.invoked])
  /\ timers' = [k \in DOMAIN timers \ {id} |-> timers[k]]
  /\ UNCHANGED <<now, delayVars, sessionVars, handlerVars, nextReminderId, cancelled>>

\* A due timer fires and the callback given to setReminder throws: the timer
\* callback has no try/catch and the process installs no uncaughtException
\* handler, so the exception ends the process.
TimerFireThrowing(id) ==
  /\ id \in DOMAIN timers
  /\ TLeq(timers[id], now)
  /\ LET r == timerCallback(activeReminders, id) IN
       /\ r.invoked
       /\ activeReminders' = r.reminders
       /\ onTriggerCalls' = [onTriggerCalls EXCEPT ![id] = @ + 1]
  /\ timers' = [k \in DOMAIN timers \ {id} |-> timers[k]]
  /\ lastOp' = Op([op |-> "uncaughtException", rid |-> id])
  /\ UNCHANGED <<now, delayVars, sessionVars, handlerVars, nextReminderId, cancelled>>

\* the process is running: no uncaught exception has ended it
Running == lastOp.op # "uncaughtException"

GetPendingRemindersCall(S) ==
  /\ lastOp' = Op([op |-> "getPendingReminders", sid |-> S, at |-> now,
                   ids |-> getPendingReminders(activeReminders, S, now)])
  /\ UNCHANGED <<now, delayVars, sessionVars, handlerVars, reminderVars>>

CompleteReminderCall(id) ==
  /\ LET r == completeReminder(activeReminders, id) IN
       /\ activeReminders' = r.reminders
       /\ lastOp' = Op([op |-> "completeReminder", rid |-> id, ok |-> r.result,
                        prior |-> id \in DOMAIN activeReminders /\ activeReminders[id].isCompleted])
  /\ UNCHANGED <<now, delayVars, sessionVars, handlerVars, timers, nextReminderId, onTriggerCalls, cancelled>>

ClearSessionRemindersCall(S) ==
  /\ LET r == clearSessionReminders(activeReminders, timers, S) IN
       /\ activeReminders' = r.reminders
       /\ timers' = r.timers
  /\ cancelled' = CancelledBy(activeReminders, timers, S, now) @@ cancelled
  /\ lastOp' = Op([op |-> "clearSessionReminders", sid |-> S])
  /\ UNCHANGED <<now, delayVars, sessionVars, handlerVars, nextReminderId, onTriggerCalls>>

\* ------------------------------------------------- memoryManager (part_000)
\* memoryManager.storeConversation, given how memory.add ends and the id the
\* result carries (the store's, or uuidv4's in the catch): the error is
\* caught, nothing is thrown to the caller
storeConversation(outcome, id) ==
  IF outcome = "resolve"
    THEN [threw |-> FALSE, id |-> id, failed |-> FALSE]
    ELSE [threw |-> FALSE, id |-> id, failed |-> TRUE]

StoreOutcomes == {"resolve", "reject"}

\* ------------------------------------------------ sessionManager (part_000)
\* the session ids a caller may pass: 0 is an id never issued
SessionKeys == 0..MaxSessions

NoUpdates == [k \in {} |-> 0]

\* mutant: the registry is left with the new session alone
createSessionAlone(sessions, sessionId, userId, t) ==
  (sessionId :>
     [userId |-> userId,
      startTime |-> t,
      lastActiveTime |-> t,
      interactions |-> 0,
      memoryIds |-> << >>,
      timeContext |-> t])

\* createSession(userId) at clock t, with sessionId the fresh uuid
createSession(sessions, sessionId, userId, t) ==
  (sessionId :>
     [userId |-> userId,
      startTime |-> t,
      lastActiveTime |-> t,
      interactions |-> 0,
      memoryIds |-> << >>,
      timeContext |-> t]) @@ sessions

\* mutant: no check that the session is live, the record is written anyway
updateSessionUpsert(sessions, sessionId, updates, t) ==
  LET session == IF sessionId \in DOMAIN sessions
                   THEN sessions[sessionId]
                   ELSE [userId |-> "", startTime |-> t, lastActiveTime |-> t,
                         interactions |-> 0, memoryIds |-> << >>, timeContext |-> t]
      merged == [k \in DOMAIN session |->
                   IF k \in DOMAIN updates THEN updates[k] ELSE session[k]]
      stamped == [merged EXCEPT !.lastActiveTime = t, !.timeContext = t]
      updated == IF "interactions" \in DOMAIN updates
                   THEN stamped
                   ELSE [stamped EXCEPT !.interactions = @ + 1]
  IN [found |-> TRUE, sessions |-> (sessionId :> updated) @@ sessions]

\* mutant: the counter is incremented also when `interactions` is supplied
updateSessionAlwaysIncrement(sessions, sessionId, updates, t) ==
  IF sessionId \notin DOMAIN sessions
    THEN [found |-> FALSE, sessions |-> sessions]
    ELSE LET session == sessions[sessionId]
             merged == [k \in DOMAIN session |->
                          IF k \in DOMAIN updates THEN updates[k] ELSE session[k]]
             stamped == [merged EXCEPT !.lastActiveTime = t, !.timeContext = t]
             updated == [stamped EXCEPT !.interactions = @ + 1]
         IN [found |-> TRUE, sessions |-> [sessions EXCEPT ![sessionId] = updated]]

\* updateSession(sessionId, updates) at clock t
updateSession(sessions, sessionId, updates, t) ==
  IF sessionId \notin DOMAIN sessions
    THEN [found |-> FALSE, sessions |-> sessions]
    ELSE LET session == sessions[sessionId]
             merged == [k \in DOMAIN session |->
                          IF k \in DOMAIN updates THEN updates[k] ELSE session[k]]
             stamped == [merged EXCEPT !.lastActiveTime = t, !.timeContext = t]
             updated == IF "interactions" \in DOMAIN updates
                          THEN stamped
                          ELSE [stamped EXCEPT !.interactions = @ + 1]
         IN [found |-> TRUE, sessions |-> [sessions EXCEPT ![sessionId] = updated]]

\* getSession(sessionId) at clock t: null, or the record with the pending
\* reminders of the session
getSession(sessions, rems, sessionId, t) ==
  IF sessionId \notin DOMAIN sessions
    THEN [found |-> FALSE, memoryIds |-> << >>, pendingReminders |-> << >>]
    ELSE [found |-> TRUE,
          memoryIds |-> sessions[sessionId].memoryIds,
          pendingReminders |-> getPendingReminders(rems, sessionId, t)]

\* endSession, before the await: the summary built from the live record
sessionSummary(sessions, sessionId, t) ==
  [sessionId |-> sessionId,
   userId |-> sessions[sessionId].userId,
   startTime |-> sessions[sessionId].startTime,
   endTime |-> t,
   interactions |-> sessions[sessionId].interactions,
   memoryIds |-> sessions[sessionId].memoryIds]

\* mutant: the session is deleted only when the summary was stored
endSessionAfterStoreKeepOnFailure(sessions, sessionId, r) ==
  IF r.failed
    THEN [sessions |-> sessions, err |-> FALSE]
    ELSE [sessions |-> [k \in DOMAIN sessions \ {sessionId} |-> sessions[k]], err |-> FALSE]

\* endSession, after `await memoryManager.storeConversation(...)` gave r: the
\* try block's delete and return, or the catch block's
endSessionAfterStore(sessions, sessionId, r) ==
  IF ~r.threw
    THEN [sessions |-> [k \in DOMAIN sessions \ {sessionId} |-> sessions[k]], err |-> FALSE]
    ELSE [sessions |-> [k \in DOMAIN sessions \ {sessionId} |-> sessions[k]], err |-> TRUE]

\* history: one more updateSession call on the live session sessionId
CountUpdate(counts, sessionId, found, supplied) ==
  IF found
    THEN [counts EXCEPT ![sessionId] =
            [n |-> @.n + 1, overridden |-> @.overridden \/ supplied]]
    ELSE counts

\* the suspended calls of one kind, counted
CopiesOfKind(kind) ==
  BagCardinality([c \in {x \in BagToSet(calls) : x.kind = kind} |-> calls[c]])

\* the suspended calls the model lets run
SuspendedCalls == BagToSet(calls)

CreateSessionCall(u) ==
  /\ nextSessionId <= MaxSessions
  /\ activeSessions' = createSession(activeSessions, nextSessionId, u, now)
  /\ nextSessionId' = nextSessionId + 1
  /\ updateCalls' = (nextSessionId :> [n |-> 0, overridden |-> FALSE]) @@ updateCalls
  /\ lastOp' = Op([op |-> "createSession", sid |-> nextSessionId])
  /\ UNCHANGED <<now, delayVars, reminderVars, endedSessions, calls, nextMemoryId, handlerVars>>

\* updateSession(sessionId), made while the counter is below limit
UpdateSessionUpTo(S, limit) ==
  /\ S < nextSessionId
  /\ S \in DOMAIN activeSessions => activeSessions[S].interactions < limit
  /\ LET r == updateSession(activeSessions, S, NoUpdates, now) IN
       /\ activeSessions' = r.sessions
       /\ updateCalls' = CountUpdate(updateCalls, S, r.found, FALSE)
       /\ lastOp' = Op([op |-> "updateSession", sid |-> S, ok |-> r.found])
  /\ UNCHANGED <<now, delayVars, reminderVars, nextSessionId, endedSessions, calls,
                 nextMemoryId, handlerVars>>

UpdateSessionCall(S) == UpdateSessionUpTo(S, MaxInteractions)

\* updateSession(sessionId, { interactions: v })
UpdateSessionOverrideCall(S, v) ==
  /\ S < nextSessionId
  /\ S \in DOMAIN activeSessions => updateCalls[S].n < MaxUpdateCalls
  /\ LET r == updateSession(activeSessions, S, [interactions |-> v], now) IN
       /\ activeSessions' = r.sessions
       /\ updateCalls' = CountUpdate(updateCalls, S, r.found, TRUE)
       /\ lastOp' = Op([op |-> "updateSession", sid |-> S, ok |-> r.found,
                        override |-> TRUE, val |-> v])
  /\ UNCHANGED <<now, delayVars, reminderVars, nextSessionId, endedSessions, calls,
                 nextMemoryId, handlerVars>>

GetSessionCall(S) ==
  /\ S < nextSessionId
  /\ LET r == getSession(activeSessions, activeReminders, S, now) IN
       lastOp' = Op([op |-> "getSession", sid |-> S, ok |-> r.found,
                     ids |-> r.pendingReminders])
  /\ UNCHANGED <<now, delayVars, reminderVars, sessionVars, handlerVars>>

\* mutant: the summary is handed to the memory store twice
EndSessionCallStoreTwice(S, viaHandler) ==
  /\ S < nextSessionId
  /\ S \in DOMAIN activeSessions
  /\ BagCardinality(calls) + 1 < MaxCalls
  /\ LET r == clearSessionReminders(activeReminders, timers, S)
         c == [kind |-> "endSession", sid |-> S, viaHandler |-> viaHandler,
               summary |-> sessionSummary(activeSessions, S, now)]
     IN /\ activeReminders' = r.reminders
        /\ timers' = r.timers
        /\ calls' = (calls (+) SetToBag({c})) (+) SetToBag({c})
  /\ cancelled' = CancelledBy(activeReminders, timers, S, now) @@ cancelled
  /\ lastOp' = Op([op |-> "endSession.await", sid |-> S])
  /\ UNCHANGED <<now, delayVars, activeSessions, nextSessionId, endedSessions, nextMemoryId, handlerVars,
                 updateCalls, nextReminderId, onTriggerCalls>>

\* endSession(sessionId) up to its await; viaHandler: called by POST /api/end-session
EndSessionCall(S, viaHandler) ==
  /\ S < nextSessionId
  /\ IF S \notin DOMAIN activeSessions
       THEN /\ lastOp' = Op([op |-> IF viaHandler THEN "/api/end-session" ELSE "endSession",
                             sid |-> S, ok |-> FALSE])
            /\ UNCHANGED <<reminderVars, calls>>
       ELSE /\ BagCardinality(calls) < MaxCalls
            /\ LET r == clearSessionReminders(activeReminders, timers, S) IN
                 /\ activeReminders' = r.reminders
                 /\ timers' = r.timers
            /\ cancelled' = CancelledBy(activeReminders, timers, S, now) @@ cancelled
            /\ calls' = calls (+) SetToBag({[kind |-> "endSession", sid |-> S,
                                              viaHandler |-> viaHandler,
                                              summary |-> sessionSummary(activeSessions, S, now)]})
            /\ lastOp' = Op([op |-> "endSession.await", sid |-> S])
            /\ UNCHANGED <<nextReminderId, onTriggerCalls>>
  /\ UNCHANGED <<now, delayVars, activeSessions, nextSessionId, endedSessions, nextMemoryId, handlerVars,
                 updateCalls>>

\* endSession after its await, and for POST /api/end-session the rest of the
\* handler, which runs in the same turn
EndSessionResume(c, outcome) ==
  /\ BagIn(c, calls)
  /\ c.kind = "endSession"
  /\ LET S == c.sid
         e == endSessionAfterStore(activeSessions, S, storeConversation(outcome, 0))
         r == IF c.viaHandler
                THEN clearSessionReminders(activeReminders, timers, S)
                ELSE [reminders |-> activeReminders, timers |-> timers]
     IN /\ activeSessions' = e.sessions
        /\ endedSessions' = endedSessions \cup (DOMAIN activeSessions \ DOMAIN e.sessions)
        /\ updateCalls' = [k \in DOMAIN updateCalls \cap DOMAIN e.sessions |-> updateCalls[k]]
        /\ activeReminders' = r.reminders
        /\ timers' = r.timers
        /\ cancelled' = IF c.viaHandler
                          THEN CancelledBy(activeReminders, timers, S, now) @@ cancelled
                          ELSE cancelled
        /\ activeConversations' =
             IF c.viaHandler
               THEN [k \in DOMAIN activeConversations \ {S} |-> activeConversations[k]]
               ELSE activeConversations
        /\ lastOp' = Op([op |-> IF c.viaHandler THEN "/api/end-session" ELSE "endSession",
                         sid |-> S, ok |-> TRUE, err |-> e.err,
                         storeFailed |-> (outcome = "reject")])
  /\ calls' = calls (-) SetToBag({c})
  /\ UNCHANGED <<now, delayVars, nextReminderId, onTriggerCalls, nextSessionId, nextMemoryId,
                 returned>>

\* ------------------------------------- the variant of memory-manager.js
\* memoryManager.storeConversation of memory-manager.js: the error of
\* memory.add is logged and thrown again
storeConversationMM(outcome, id) ==
  IF outcome = "resolve"
    THEN [threw |-> FALSE, id |-> id, failed |-> FALSE]
    ELSE [threw |-> TRUE, id |-> id, failed |-> TRUE]

\* sessionManager.createSession of memory-manager.js at clock t
createSessionMM(sessions, sessionId, userId, t) ==
  (sessionId :>
     [userId |-> userId,
      startTime |-> t,
      lastActiveTime |-> t,
      interactions |-> 0,
      memoryIds |-> << >>]) @@ sessions

\* sessionManager.endSession of memory-manager.js after its await gave r: the
\* delete and return of the try block, or the catch block, which throws the
\* error again
endSessionAfterStoreMM(sessions, sessionId, r) ==
  IF ~r.threw
    THEN [sessions |-> [k \in DOMAIN sessions \ {sessionId} |-> sessions[k]], err |-> FALSE]
    ELSE [sessions |-> sessions, err |-> TRUE]

CreateSessionMMCall(u) ==
  /\ nextSessionId <= MaxSessions
  /\ activeSessions' = createSessionMM(activeSessions, nextSessionId, u, now)
  /\ nextSessionId' = nextSessionId + 1
  /\ lastOp' = Op([op |-> "createSession", sid |-> nextSessionId])
  /\ UNCHANGED <<now, delayVars, reminderVars, endedSessions, calls, nextMemoryId,
                 updateCalls, handlerVars>>

\* endSession(sessionId) of memory-manager.js up to its await
EndSessionMMCall(S) ==
  /\ S < nextSessionId
  /\ IF S \notin DOMAIN activeSessions
       THEN /\ lastOp' = Op([op |-> "endSession", sid |-> S, ok |-> FALSE])
            /\ UNCHANGED calls
       ELSE /\ BagCardinality(calls) < MaxCalls
            /\ calls' = calls (+) SetToBag({[kind |-> "endSessionMM", sid |-> S,
                                              viaHandler |-> FALSE,
                                              summary |-> sessionSummary(activeSessions, S, now)]})
            /\ lastOp' = Op([op |-> "endSession.await", sid |-> S])
  /\ UNCHANGED <<now, delayVars, reminderVars, activeSessions, nextSessionId, endedSessions,
                 nextMemoryId, updateCalls, handlerVars>>

\* endSession of memory-manager.js after its await
EndSessionMMResume(c, outcome) ==
  /\ BagIn(c, calls)
  /\ c.kind = "endSessionMM"
  /\ LET e == endSessionAfterStoreMM(activeSessions, c.sid, storeConversationMM(outcome, 0))
     IN /\ activeSessions' = e.sessions
        /\ endedSessions' = endedSessions \cup (DOMAIN activeSessions \ DOMAIN e.sessions)
        /\ lastOp' = Op([op |-> "endSession", sid |-> c.sid, ok |-> TRUE, err |-> e.err,
                         storeFailed |-> (outcome = "reject")])
  /\ calls' = calls (-) SetToBag({c})
  /\ UNCHANGED <<now, delayVars, reminderVars, nextSessionId, nextMemoryId, updateCalls,
                 handlerVars>>

\* ------------------------------------------------------ handlers (part_001)
\* how the fetch of the signed URL ends: response.ok or not
FetchOutcomes == {"ok", "failed"}

\* GET /api/signed-url up to `await fetch(...)`; supplied: the query holds the
\* sessionId S, else a session is created
SignedUrlRequest(S, supplied, u) ==
  /\ BagCardinality(calls) < MaxCalls
  /\ IF ~supplied
       THEN /\ nextSessionId <= MaxSessions
            /\ activeSessions' = createSession(activeSessions, nextSessionId, u, now)
            /\ updateCalls' = (nextSessionId :> [n |-> 0, overridden |-> FALSE]) @@ updateCalls
            /\ calls' = calls (+) SetToBag({[kind |-> "signedUrl", sid |-> nextSessionId,
                                              userId |-> u]})
            /\ lastOp' = Op([op |-> "/api/signed-url.await", sid |-> nextSessionId])
            /\ nextSessionId' = nextSessionId + 1
       ELSE /\ S < nextSessionId
            /\ S \in DOMAIN activeSessions => activeSessions[S].interactions < MaxInteractions
            /\ LET r == updateSession(activeSessions, S, NoUpdates, now) IN
                 /\ activeSessions' = r.sessions
                 /\ updateCalls' = CountUpdate(updateCalls, S, r.found, FALSE)
            /\ calls' = calls (+) SetToBag({[kind |-> "signedUrl", sid |-> S, userId |-> u]})
            /\ lastOp' = Op([op |-> "/api/signed-url.await", sid |-> S])
            /\ UNCHANGED nextSessionId
  /\ UNCHANGED <<now, delayVars, reminderVars, endedSessions, nextMemoryId, handlerVars>>

\* GET /api/signed-url after its awaits: the conversation is stored under the
\* sessionId and the response sent, or the error is answered with 500
SignedUrlResume(c, outcome) ==
  /\ BagIn(c, calls)
  /\ c.kind = "signedUrl"
  /\ IF outcome = "ok"
       THEN /\ activeConversations' =
                 (c.sid :> [userId |-> c.userId, startTime |-> now])
                   @@ [k \in DOMAIN activeConversations \ {c.sid} |-> activeConversations[k]]
            /\ lastOp' = Op([op |-> "/api/signed-url", sid |-> c.sid, ok |-> TRUE])
       ELSE /\ lastOp' = Op([op |-> "/api/signed-url", sid |-> c.sid, ok |-> FALSE,
                             err |-> TRUE])
            /\ UNCHANGED activeConversations
  /\ calls' = calls (-) SetToBag({c})
  /\ UNCHANGED <<now, delayVars, reminderVars, activeSessions, nextSessionId, endedSessions,
                 nextMemoryId, updateCalls, returned>>

\* mutant: the reminders retrieved are not marked
completeRetrievedNone(rems, ids) == rems

\* GET /api/check-reminders: pendingReminders.forEach(reminder =>
\* completeReminder(reminder.id))
RECURSIVE completeRetrieved(_, _)
completeRetrieved(rems, ids) ==
  IF ids = << >> THEN rems
  ELSE completeRetrieved(completeReminder(rems, Head(ids)).reminders, Tail(ids))

\* GET /api/check-reminders; given: the query holds a sessionId
CheckRemindersCall(S, given) ==
  IF ~given
    THEN /\ lastOp' = Op([op |-> "/api/check-reminders", ok |-> FALSE, err |-> TRUE])
         /\ UNCHANGED <<now, delayVars, reminderVars, sessionVars, handlerVars>>
    ELSE LET pendingReminders == getPendingReminders(activeReminders, S, now) IN
           /\ activeReminders' = completeRetrieved(activeReminders, pendingReminders)
           /\ returned' = [id \in DOMAIN returned \cup Range(pendingReminders) |->
                             (IF id \in DOMAIN returned THEN returned[id] ELSE 0)
                             + (IF id \in Range(pendingReminders) THEN 1 ELSE 0)]
           /\ lastOp' = Op([op |-> "/api/check-reminders", sid |-> S, at |-> now,
                            ids |-> pendingReminders])
           /\ UNCHANGED <<now, delayVars, sessionVars, activeConversations, timers,
                          nextReminderId, onTriggerCalls, cancelled>>

\* GET /api/check-delay: hasActiveDelay and getRemainingDelayTime each read the
\* clock; given: the query holds a sessionId
CheckDelayCall(S, given) ==
  IF ~given
    THEN /\ lastOp' = Op([op |-> "/api/check-delay", ok |-> FALSE, err |-> TRUE])
         /\ UNCHANGED <<now, delayVars, reminderVars, sessionVars, handlerVars>>
    ELSE \E t2 \in LaterReadings(now) :
           LET h == hasActiveDelay(pendingDelays, S, now)
               g == getRemainingDelayTime(h.delays, S, t2)
           IN /\ pendingDelays' = g.delays
              /\ sawInactive' = IF h.result THEN sawInactive ELSE sawInactive \cup {S}
              /\ now' = t2
              /\ lastOp' = Op([op |-> "/api/check-delay", sid |-> S, ok |-> h.result,
                               val |-> g.result, at |-> now])
              /\ UNCHANGED <<reminderVars, sessionVars, handlerVars>>

\* ------------------------------------------------------- message texts
\* A text is the sequence of its tokens, the pieces between single spaces: a
\* word, a run of digits, or the empty piece (two spaces in a row, or a space
\* at an end of the text). The texts drawn hold whole words only, so a regular
\* expression of words and single spaces matches in a text exactly where its
\* words match consecutive tokens.
Word(w) == [w |-> w, digits |-> << >>]
Num(ds) == [w |-> "#", digits |-> ds]
Gap == Word("")

\* the /i flag and toLowerCase(), on the words used
Lower(w) ==
  CASE w = "Wait" -> "wait"
    [] w = "Remind" -> "remind"
    [] w = "MINUTES" -> "minutes"
    [] OTHER -> w

\* parseInt of a run of decimal digits
RECURSIVE parseInt(_)
parseInt(ds) ==
  IF ds = << >> THEN 0
  ELSE parseInt(SubSeq(ds, 1, Len(ds) - 1)) * 10 + ds[Len(ds)]

\* a pattern is the sequence of its word alternatives, {"#"} standing for (\d+)
Digits == {"#"}
Seconds == {"second", "seconds"}

delayPatterns ==
  << <<{"wait"}, {"for"}, Digits, Seconds>>,
     <<{"delay"}, {"response", "reply"}, {"by"}, Digits, Seconds>>,
     <<{"pause"}, {"for"}, Digits, Seconds>>,
     <<{"hold"}, {"for"}, Digits, Seconds>>,
     <<{"wait"}, Digits, Seconds>> >>

hinglishPatterns ==
  << <<Digits, Seconds, {"wait"}, {"karo"}>>,
     <<Digits, Seconds, {"ke"}, {"baad"}, {"jawab"}, {"do"}>>,
     <<Digits, Seconds, {"ruko"}>> >>

allPatterns == delayPatterns \o hinglishPatterns

\* the words of pattern p match the tokens of text from position i on
MatchesAt(p, text, i) ==
  /\ i + Len(p) - 1 <= Len(text)
  /\ \A k \in 1..Len(p) : Lower(text[i + k - 1].w) \in p[k]

\* text.match(p): the position of the leftmost match, 0 for null
match(text, p) ==
  LET at == {i \in 1..Len(text) : MatchesAt(p, text, i)}
  IN IF at = {} THEN 0 ELSE CHOOSE i \in at : \A j \in at : i <= j

\* match[1] of a match of p at position i: the digits captured
Group1(text, p, i) ==
  text[i + (CHOOSE k \in 1..Len(p) : p[k] = Digits) - 1].digits

\* processDelayInstructions(text): the loop over the pattern table from entry k
\* on, left at the first match
RECURSIVE delayLoop(_, _, _)
delayLoop(text, patterns, k) ==
  IF k > Len(patterns)
    THEN [hasDelay |-> FALSE, delaySeconds |-> 0]
  ELSE LET i == match(text, patterns[k]) IN
    IF i # 0 /\ Group1(text, patterns[k], i) # << >>
      THEN [hasDelay |-> TRUE, delaySeconds |-> parseInt(Group1(text, patterns[k], i))]
      ELSE delayLoop(text, patterns, k + 1)

\* mutant: the Hindi-English patterns are left out
processDelayInstructionsEnglishOnly(text) == delayLoop(text, delayPatterns, 1)

\* mutant: the pattern matching leftmost in the text wins
processDelayInstructionsLeftmost(text) ==
  LET K == {k \in 1..Len(allPatterns) : match(text, allPatterns[k]) # 0}
  IN IF K = {} THEN [hasDelay |-> FALSE, delaySeconds |-> 0]
     ELSE LET k == CHOOSE x \in K : \A y \in K :
                     match(text, allPatterns[x]) < match(text, allPatterns[y])
                     \/ (match(text, allPatterns[x]) = match(text, allPatterns[y]) /\ x <= y)
          IN [hasDelay |-> TRUE,
              delaySeconds |->
                parseInt(Group1(text, allPatterns[k], match(text, allPatterns[k])))]

\* processDelayInstructions(text)
processDelayInstructions(text) == delayLoop(text, allPatterns, 1)

\* the runs of digits the texts drawn hold, and the whole numbers they write
Amounts == {<<0>>, <<5>>, <<1, 0>>}
AmountValue(ds) ==
  CASE ds = <<0>> -> 0
    [] ds = <<5>> -> 5
    [] ds = <<1, 0>> -> 10

\* the supported delay phrasings, for the number written ds and "second" or
\* "seconds"
DelayPhrasings(ds, sec) ==
  { <<Word("wait"), Word("for"), Num(ds), Word(sec)>>,
    <<Word("delay"), Word("response"), Word("by"), Num(ds), Word(sec)>>,
    <<Word("delay"), Word("reply"), Word("by"), Num(ds), Word(sec)>>,
    <<Word("pause"), Word("for"), Num(ds), Word(sec)>>,
    <<Word("hold"), Word("for"), Num(ds), Word(sec)>>,
    <<Word("wait"), Num(ds), Word(sec)>>,
    <<Num(ds), Word(sec), Word("wait"), Word("karo")>>,
    <<Num(ds), Word(sec), Word("ke"), Word("baad"), Word("jawab"), Word("do")>>,
    <<Num(ds), Word(sec), Word("ruko")>> }

\* pieces of text that are no delay phrasing by themselves
DelayFillers ==
  { << >>,
    <<Word("please")>>,
    <<Word("wait"), Word("for"), Word("seconds")>>,
    <<Num(<<5>>), Word("minutes")>>,
    <<Num(<<5>>), Word("seconds")>>,
    <<Word("wait"), Gap, Num(<<5>>), Word("seconds")>>,
    <<Word("ruko")>> }

\* the messages given to POST /api/process-message: one piece after another
DelayTexts ==
  LET first == UNION {DelayPhrasings(ds, "seconds") : ds \in Amounts}
                 \cup DelayPhrasings(<<5>>, "second")
                 \cup {<<Word("Wait"), Word("for"), Num(<<1, 0>>), Word("seconds")>>}
                 \cup DelayFillers
      second == { <<Word("wait"), Word("for"), Num(<<5>>), Word("seconds")>>,
                  <<Word("wait"), Num(<<5>>), Word("seconds")>>,
                  <<Num(<<5>>), Word("seconds"), Word("ruko")>>,
                  << >>,
                  <<Word("please")>>,
                  <<Word("ruko")>> }
  IN {a \o b : a \in first, b \in second}

\* texts in which several delay patterns match
SeveralDelayTexts ==
  {a \o b : a \in DelayPhrasings(<<1, 0>>, "seconds"),
            b \in { <<Word("wait"), Word("for"), Num(<<5>>), Word("seconds")>>,
                    <<Word("hold"), Word("for"), Num(<<5>>), Word("second")>>,
                    <<Num(<<5>>), Word("seconds"), Word("ruko")>>,
                    <<Word("ruko")>> }}

\* POST /api/process-message
ProcessMessageCall(S, text) ==
  IF text = << >>
    THEN /\ lastOp' = Op([op |-> "/api/process-message", sid |-> S, ok |-> FALSE,
                          err |-> TRUE])
         /\ UNCHANGED <<now, delayVars, reminderVars, sessionVars, handlerVars>>
    ELSE LET r == processDelayInstructions(text) IN
           /\ IF r.hasDelay
                THEN \E t2 \in LaterReadings(now) :
                       /\ pendingDelays' =
                            (S :> createDelay(S, r.delaySeconds, now, t2)) @@ pendingDelays
                       /\ now' = t2
                       /\ sawInactive' = sawInactive \ {S}
                ELSE UNCHANGED <<now, delayVars>>
           /\ lastOp' = Op([op |-> "/api/process-message", sid |-> S, text |-> text,
                            ok |-> r.hasDelay, val |-> r.delaySeconds])
           /\ UNCHANGED <<reminderVars, sessionVars, handlerVars>>

\* ------------------------------------- checkForReminderRequests (part_001)
Units == {"second", "seconds", "minute", "minutes", "hour", "hours"}

\* the words of the three patterns before the task (.*), and for the third
\* the words after it
reminderPattern1 == <<{"remind"}, {"me"}, {"in"}, Digits, Units, {"to"}>>
reminderPattern2 == <<Digits, Units, {"ke"}, {"baad"}, {"yaad"}, {"dila"}, {"dena"}>>
reminderPattern3 == <<Digits, Units, {"baad"}>>
reminderPattern3End == <<{"yaad"}, {"dila"}, {"dena"}>>

NoMatch == [found |-> FALSE, amount |-> << >>, unit |-> "", task |-> << >>]

\* message.match(p) for a pattern that ends in " (.*)": the leftmost place
\* where the words match with a space after them; the task is the rest
matchToEnd(text, p) ==
  LET at == {i \in 1..Len(text) : MatchesAt(p, text, i) /\ i + Len(p) <= Len(text)}
  IN IF at = {} THEN NoMatch
     ELSE LET i == CHOOSE x \in at : \A y \in at : x <= y
              d == CHOOSE k \in 1..Len(p) : p[k] = Digits
          IN [found |-> TRUE,
              amount |-> text[i + d - 1].digits,
              unit |-> text[i + d].w,
              task |-> SubSeq(text, i + Len(p), Len(text))]

\* message.match(reminderPattern3): the leftmost place where the first words
\* match and the last words follow later; (.*) is greedy, so the task runs up
\* to the last place the last words match
matchAround(text, p, e) ==
  LET ends(i) == {j \in 1..Len(text) : j > i + Len(p) /\ MatchesAt(e, text, j)}
      at == {i \in 1..Len(text) : MatchesAt(p, text, i) /\ ends(i) # {}}
  IN IF at = {} THEN NoMatch
     ELSE LET i == CHOOSE x \in at : \A y \in at : x <= y
              j == CHOOSE x \in ends(i) : \A y \in ends(i) : y <= x
          IN [found |-> TRUE,
              amount |-> text[i].digits,
              unit |-> text[i + 1].w,
              task |-> SubSeq(text, i + Len(p), j - 1)]

\* mutant: the patterns are tried in the order 3, 2, 1
reminderMatchLastFirst(text) ==
  IF matchAround(text, reminderPattern3, reminderPattern3End).found
    THEN matchAround(text, reminderPattern3, reminderPattern3End)
  ELSE IF matchToEnd(text, reminderPattern2).found
    THEN matchToEnd(text, reminderPattern2)
  ELSE matchToEnd(text, reminderPattern1)

\* message.match(reminderPattern1) || message.match(reminderPattern2)
\*   || message.match(reminderPattern3)
reminderMatch(text) ==
  IF matchToEnd(text, reminderPattern1).found
    THEN matchToEnd(text, reminderPattern1)
  ELSE IF matchToEnd(text, reminderPattern2).found
    THEN matchToEnd(text, reminderPattern2)
  ELSE matchAround(text, reminderPattern3, reminderPattern3End)

\* mutant: hours are converted as minutes
durationInSecondsHoursAsMinutes(amount, unit) ==
  IF Lower(unit) \in {"minute", "minutes"} THEN amount * 60
  ELSE IF Lower(unit) \in {"hour", "hours"} THEN amount * 60
  ELSE amount

\* the durationInSeconds computed from parseInt(match[1]) and match[2]
durationInSeconds(amount, unit) ==
  IF Lower(unit) \in {"minute", "minutes"} THEN amount * 60
  ELSE IF Lower(unit) \in {"hour", "hours"} THEN amount * 60 * 60
  ELSE amount

\* checkForReminderRequests: what it asks setReminder for, if anything
checkForReminderRequests(text) ==
  LET m == reminderMatch(text) IN
    IF m.found
      THEN [found |-> TRUE,
            task |-> m.task,
            durationInSeconds |-> durationInSeconds(parseInt(m.amount), m.unit)]
      ELSE [found |-> FALSE, task |-> << >>, durationInSeconds |-> 0]

\* the tasks written in the texts drawn: with an extra space before the
\* task, and with a space after it, too
TaskTexts ==
  { <<Word("check"), Word("rice")>>,
    <<Gap, Word("check"), Word("rice")>>,
    <<Word("check"), Word("rice"), Gap>>,
    <<Word("chai")>> }

TextUnits == Units \cup {"MINUTES"}

\* the three reminder phrasings, for the number written ds, the unit and the
\* task
ReminderPhrase(form, ds, unit, task) ==
  CASE form = 1 ->
         <<Word("Remind"), Word("me"), Word("in"), Num(ds), Word(unit), Word("to")>> \o task
    [] form = 2 ->
         <<Num(ds), Word(unit), Word("ke"), Word("baad"), Word("yaad"), Word("dila"),
           Word("dena")>> \o task
    [] form = 3 ->
         <<Num(ds), Word(unit), Word("baad")>> \o task
           \o <<Word("yaad"), Word("dila"), Word("dena")>>

\* texts that are no reminder request
NoReminderTexts ==
  { <<Word("please"), Word("check"), Word("rice")>>,
    <<Word("remind"), Word("me"), Word("in"), Num(<<5>>), Word("minutes")>>,
    <<Word("remind"), Word("me"), Word("in"), Num(<<5>>), Word("minutes"), Word("to")>>,
    <<Word("remind"), Word("me"), Word("in"), Word("five"), Word("minutes"), Word("to"),
      Word("chai")>>,
    <<Num(<<5>>), Word("days"), Word("baad"), Word("chai"), Word("yaad"), Word("dila"),
      Word("dena")>>,
    <<Num(<<5>>), Word("minutes"), Word("baad"), Word("yaad"), Word("dila"), Word("dena")>> }

\* texts in which several patterns match
SeveralReminderTexts ==
  { ReminderPhrase(3, <<5>>, "minutes",
                   ReminderPhrase(1, <<1, 0>>, "seconds", <<Word("chai")>>)),
    ReminderPhrase(2, <<1, 0>>, "seconds",
                   ReminderPhrase(1, <<5>>, "hours", <<Word("chai")>>)),
    ReminderPhrase(3, <<5>>, "minutes", <<Word("chai")>>)
      \o ReminderPhrase(2, <<1, 0>>, "seconds", <<Word("check"), Word("rice")>>) }

ReminderTexts ==
  {ReminderPhrase(form, ds, unit, task) :
     form \in 1..3, ds \in Amounts, unit \in TextUnits, task \in TaskTexts}
  \cup NoReminderTexts \cup SeveralReminderTexts

\* the reminder ids given out while texts are parsed
ParseReminderIds == {1}

\* checkForReminderRequests(sessionId, userId, message)
CheckForReminderRequestsCall(S, u, text) ==
  LET r == checkForReminderRequests(text) IN
    IF r.found
      THEN /\ nextReminderId \in ParseReminderIds
           /\ LET s == setReminder(activeReminders, timers, nextReminderId, S, u, r.task,
                                   r.durationInSeconds, now) IN
                /\ activeReminders' = s.reminders
                /\ timers' = s.timers
           /\ onTriggerCalls' = (nextReminderId :> 0) @@ onTriggerCalls
           /\ nextReminderId' = nextReminderId + 1
           /\ lastOp' = Op([op |-> "checkForReminderRequests", sid |-> S, text |-> text,
                            ok |-> TRUE, rid |-> nextReminderId])
           /\ UNCHANGED <<now, delayVars, sessionVars, handlerVars, cancelled>>
      ELSE /\ lastOp' = Op([op |-> "checkForReminderRequests", sid |-> S, text |-> text,
                            ok |-> FALSE])
           /\ UNCHANGED <<now, delayVars, sessionVars, handlerVars, reminderVars>>

\* ------------------------------------- POST /api/store-conversation
\* a message of the transcript submitted
Message(role, content) == [role |-> role, content |-> content]

\* messages.find(m => m.role === 'user')?.content, << >> when there is none
lastUserMessage(messages) ==
  LET users == {i \in 1..Len(messages) : messages[i].role = "user"}
  IN IF users = {} THEN << >>
     ELSE messages[CHOOSE i \in users : \A j \in users : i <= j].content

\* the transcripts submitted: a greeting; a reminder request; the same
\* transcript grown by an answer and a further user message; a reminder
\* request after a greeting
PlainTranscript == <<Message("user", <<Word("hello")>>)>>
ReminderRequest ==
  <<Word("remind"), Word("me"), Word("in"), Num(<<1>>), Word("second"), Word("to"),
    Word("check"), Word("rice")>>
Transcripts ==
  { PlainTranscript,
    <<Message("user", ReminderRequest)>>,
    <<Message("user", ReminderRequest), Message("assistant", <<Word("ok")>>),
      Message("user", <<Word("thanks")>>)>>,
    <<Message("user", <<Word("hello")>>), Message("assistant", <<Word("hi")>>),
      Message("user", ReminderRequest)>> }

\* POST /api/store-conversation up to its first await
StoreConversationRequest(S, u, messages) ==
  /\ S < nextSessionId
  /\ LET g == getSession(activeSessions, activeReminders, S, now)
         content == lastUserMessage(messages)
         asked == IF content = << >>
                    THEN [found |-> FALSE, task |-> << >>, durationInSeconds |-> 0]
                    ELSE checkForReminderRequests(content)
     IN
       IF ~g.found
         THEN /\ lastOp' = Op([op |-> "/api/store-conversation", sid |-> S, ok |-> FALSE])
              /\ UNCHANGED <<reminderVars, sessionVars, handlerVars>>
         ELSE /\ nextMemoryId + CopiesOfKind("storeConversation") <= MaxMemories
              /\ BagCardinality(calls) < MaxCalls
              /\ activeSessions' = updateSession(activeSessions, S, NoUpdates, now).sessions
              /\ updateCalls' = CountUpdate(updateCalls, S, TRUE, FALSE)
              /\ IF asked.found
                   THEN /\ nextReminderId <= MaxReminders
                        /\ LET r == setReminder(activeReminders, timers, nextReminderId, S, u,
                                                asked.task, asked.durationInSeconds, now) IN
                             /\ activeReminders' = r.reminders
                             /\ timers' = r.timers
                        /\ onTriggerCalls' = (nextReminderId :> 0) @@ onTriggerCalls
                        /\ nextReminderId' = nextReminderId + 1
                   ELSE UNCHANGED <<activeReminders, timers, onTriggerCalls, nextReminderId>>
              /\ calls' = calls (+) SetToBag({[kind |-> "storeConversation", sid |-> S,
                                                memoryIds |-> g.memoryIds]})
              /\ lastOp' = Op([op |-> "/api/store-conversation.await", sid |-> S,
                               messages |-> messages])
              /\ UNCHANGED <<cancelled, nextSessionId, endedSessions, nextMemoryId, handlerVars>>
  /\ UNCHANGED <<now, delayVars>>

\* POST /api/store-conversation after its awaits: the session is given the
\* memory ids read before them, with the new id appended
StoreConversationResume(c, outcome) ==
  /\ BagIn(c, calls)
  /\ c.kind = "storeConversation"
  /\ LET S == c.sid
         r == storeConversation(outcome, nextMemoryId)
         u == updateSession(activeSessions, S,
                            [memoryIds |-> Append(c.memoryIds, r.id)], now)
     IN /\ activeSessions' = u.sessions
        /\ updateCalls' = CountUpdate(updateCalls, S, u.found, FALSE)
        /\ lastOp' = Op([op |-> "/api/store-conversation", sid |-> S, ok |-> u.found,
                         storeFailed |-> r.failed])
  /\ nextMemoryId' = nextMemoryId + 1
  /\ calls' = calls (-) SetToBag({c})
  /\ UNCHANGED <<now, delayVars, reminderVars, nextSessionId, endedSessions, handlerVars>>

InitClock == now = Time(0, 0)
InitDelay ==
  /\ pendingDelays = << >>
  /\ sawInactive = {}
InitReminder ==
  /\ activeReminders = << >>
  /\ timers = << >>
  /\ nextReminderId = 1
  /\ onTriggerCalls = << >>
  /\ cancelled = << >>
InitSession ==
  /\ activeSessions = << >>
  /\ nextSessionId = 1
  /\ endedSessions = {}
  /\ calls = EmptyBag
  /\ nextMemoryId = 1
  /\ updateCalls = << >>
InitHandler ==
  /\ activeConversations = << >>
  /\ returned = << >>
InitOp == lastOp = OpDefaults

Init == InitClock /\ InitDelay /\ InitReminder /\ InitSession /\ InitHandler /\ InitOp

\* ----------------------------------------------- the delay tracker alone
NextDelay ==
  \/ TickMs
  \/ TickSecond(MaxSec)
  \/ \E S \in DelaySessionIds, d \in DelayDurations : CreateDelayCall(S, d)
  \/ \E S \in DelaySessionIds : HasActiveDelayCall(S)
  \/ \E S \in DelaySessionIds : GetRemainingDelayTimeCall(S)
  \/ \E S \in DelaySessionIds : ClearDelayCall(S)

SpecDelay == Init /\ [][NextDelay]_vars

\* -------------------------------------------- the reminder scheduler alone
NextReminder ==
  \/ TickSecond(MaxReminderSec)
  \/ \E S \in ReminderSessionIds, u \in Users, task \in Tasks, d \in ReminderDurations :
       SetReminderCall(S, u, task, d)
  \/ \E id \in 1..MaxReminders : TimerFire(id)
  \/ \E S \in ReminderSessionIds : GetPendingRemindersCall(S)
  \/ \E id \in 1..MaxReminders : CompleteReminderCall(id)
  \/ \E S \in ReminderSessionIds : ClearSessionRemindersCall(S)

SpecReminder == Init /\ [][NextReminder]_vars

\* the reminder scheduler with the event loop running every due timer and
\* the clock moving on
SpecReminderLive ==
  /\ Init
  /\ [][NextReminder]_vars
  /\ WF_vars(TickSecond(MaxReminderSec))
  /\ \A id \in 1..MaxReminders : WF_vars(TimerFire(id))

\* ------------------ the reminder scheduler with callbacks that may throw
NextCallback ==
  \/ Running /\ TickSecond(MaxReminderSec)
  \/ \E S \in ReminderSessionIds, u \in Users, task \in Tasks, d \in {0, MaxReminderSeconds} :
       Running /\ SetReminderCall(S, u, task, d)
  \/ \E id \in 1..MaxReminders : Running /\ TimerFire(id)
  \/ \E id \in 1..MaxReminders : Running /\ TimerFireThrowing(id)
  \/ \E S \in ReminderSessionIds : Running /\ GetPendingRemindersCall(S)

SpecCallback == Init /\ [][NextCallback]_vars

\* ------------------------------------------ parsing delay instructions
NextParseDelay ==
  \E text \in DelayTexts : ProcessMessageCall(1, text)

SpecParseDelay == Init /\ [][NextParseDelay]_vars

\* ------------------------------------------- parsing reminder requests
NextParseReminder ==
  \E u \in Users, text \in ReminderTexts : CheckForReminderRequestsCall(1, u, text)

SpecParseReminder == Init /\ [][NextParseReminder]_vars

\* ----------------------------------- texts that several patterns match
NextParse ==
  \/ \E text \in SeveralDelayTexts : ProcessMessageCall(1, text)
  \/ \E u \in Users, text \in SeveralReminderTexts \cup NoReminderTexts :
       CheckForReminderRequestsCall(1, u, text)

SpecParse == Init /\ [][NextParse]_vars

\* ------------------------------------------------- the session registry
NextSession ==
  \/ \E u \in Users : CreateSessionCall(u)
  \/ \E S \in SessionKeys : UpdateSessionCall(S)
  \/ \E S \in SessionKeys : GetSessionCall(S)
  \/ \E S \in SessionKeys, viaHandler \in BOOLEAN : EndSessionCall(S, viaHandler)
  \/ \E c \in SuspendedCalls, outcome \in StoreOutcomes : EndSessionResume(c, outcome)

Spec == Init /\ [][NextSession]_vars

\* ------------------------------------- the interaction counter of a session
InteractionValues == 0..MaxInteractions

NextUpdate ==
  \/ \E u \in Users : CreateSessionCall(u)
  \/ \E S \in SessionKeys : UpdateSessionUpTo(S, MaxUpdateCalls)
  \/ \E S \in SessionKeys, v \in InteractionValues : UpdateSessionOverrideCall(S, v)

SpecUpdate == Init /\ [][NextUpdate]_vars

\* ------------------- the session registry under POST /api/store-conversation
NextStore ==
  \/ \E u \in Users : CreateSessionCall(u)
  \/ \E S \in SessionKeys : UpdateSessionCall(S)
  \/ \E S \in SessionKeys, u \in Users : StoreConversationRequest(S, u, PlainTranscript)
  \/ \E c \in SuspendedCalls, outcome \in StoreOutcomes : StoreConversationResume(c, outcome)
  \/ \E S \in SessionKeys : EndSessionCall(S, TRUE)
  \/ \E c \in SuspendedCalls, outcome \in StoreOutcomes : EndSessionResume(c, outcome)

SpecStore == Init /\ [][NextStore]_vars

\* ------------------------------- ending a session that is being set reminders
NextEndReminder ==
  \/ TickSecond(MaxSessionSec)
  \/ \E u \in Users : CreateSessionCall(u)
  \/ \E S \in SessionKeys, viaHandler \in BOOLEAN : EndSessionCall(S, viaHandler)
  \/ \E c \in SuspendedCalls, outcome \in StoreOutcomes : EndSessionResume(c, outcome)
  \/ \E S \in SessionKeys, u \in Users, task \in Tasks, d \in {0, MaxReminderSeconds} :
       /\ 0 < S /\ S < nextSessionId
       /\ nextReminderId <= MaxSessionReminders
       /\ SetReminderCall(S, u, task, d)
  \/ \E id \in 1..MaxSessionReminders : TimerFire(id)
  \/ \E S \in SessionKeys : S < nextSessionId /\ GetPendingRemindersCall(S)

SpecEndReminder == Init /\ [][NextEndReminder]_vars

\* ------------------------- calls on ids that have no live record
NextNotFound ==
  \/ \E u \in Users : CreateSessionCall(u)
  \/ \E S \in SessionKeys : UpdateSessionCall(S)
  \/ \E S \in SessionKeys : GetSessionCall(S)
  \/ \E S \in SessionKeys : EndSessionCall(S, FALSE)
  \/ \E c \in SuspendedCalls : EndSessionResume(c, "resolve")
  \/ \E S \in {1}, u \in Users, task \in Tasks :
       /\ S < nextSessionId
       /\ nextReminderId <= MaxSessionReminders
       /\ SetReminderCall(S, u, task, MaxReminderSeconds)
  \/ \E id \in 1..MaxSessionReminders : CompleteReminderCall(id)

SpecNotFound == Init /\ [][NextNotFound]_vars

\* ------------- two sessions, each with its reminders and its delay
\* session T with its record, its delay and its reminders, and the session
\* key S whose reminders fire, are completed and are cleared
IsolationT == 1
IsolationS == 2
IsolationReminderIds == {1, 2}

NextIsolation ==
  \/ TickMs
  \/ \E u \in Users : nextSessionId = IsolationT /\ CreateSessionCall(u)
  \/ UpdateSessionCall(IsolationT)
  \/ \E S \in {IsolationT, IsolationS}, u \in Users, task \in Tasks :
       /\ nextReminderId \in IsolationReminderIds
       /\ SetReminderCall(S, u, task, 0)
  \/ CreateDelayCall(IsolationT, MaxDelaySeconds)
  \/ \E id \in IsolationReminderIds : TimerFire(id)
  \/ \E id \in IsolationReminderIds : CompleteReminderCall(id)
  \/ ClearSessionRemindersCall(IsolationS)

SpecIsolation == Init /\ [][NextIsolation]_vars

\* ------------------------- sessions created while others live and end
NextCreate ==
  \/ TickSecond(MaxSessionSec)
  \/ \E u \in Users : CreateSessionCall(u)
  \/ \E S \in SessionKeys : UpdateSessionCall(S)
  \/ \E S \in {1} : EndSessionCall(S, FALSE)
  \/ \E c \in SuspendedCalls : EndSessionResume(c, "resolve")

SpecCreate == Init /\ [][NextCreate]_vars

\* ------------------------- the session registry of memory-manager.js
NextMM ==
  \/ TickSecond(MaxSessionSec)
  \/ \E u \in Users : CreateSessionMMCall(u)
  \/ \E S \in SessionKeys : EndSessionMMCall(S)
  \/ \E c \in SuspendedCalls, outcome \in StoreOutcomes : EndSessionMMResume(c, outcome)

SpecMM == Init /\ [][NextMM]_vars

\* ------------------------------------- delays polled by GET /api/check-delay
NextCheckDelay ==
  \/ TickMs
  \/ TickSecond(MaxSec)
  \/ TickNextSecond(MaxSec)
  \/ \E S \in DelaySessionIds, d \in DelayDurations : CreateDelayCall(S, d)
  \/ \E S \in DelaySessionIds, given \in BOOLEAN : CheckDelayCall(S, given)

SpecCheckDelay == Init /\ [][NextCheckDelay]_vars

\* --------------------------- reminders polled by GET /api/check-reminders
NextCheckReminders ==
  \/ TickSecond(MaxReminderSec)
  \/ \E S \in ReminderSessionIds, u \in Users, task \in Tasks, d \in {0, MaxReminderSeconds} :
       SetReminderCall(S, u, task, d)
  \/ \E id \in 1..MaxReminders : TimerFire(id)
  \/ \E S \in ReminderSessionIds, given \in BOOLEAN : CheckRemindersCall(S, given)

SpecCheckReminders == Init /\ [][NextCheckReminders]_vars

\* ------------------------------- ending a session that has a delay
NextEndDelay ==
  \/ TickSecond(MaxSessionSec)
  \/ \E u \in Users : CreateSessionCall(u)
  \/ \E S \in SessionKeys :
       S \in DOMAIN activeSessions /\ CreateDelayCall(S, MaxDelaySeconds)
  \/ \E S \in SessionKeys, viaHandler \in BOOLEAN : EndSessionCall(S, viaHandler)
  \/ \E c \in SuspendedCalls, outcome \in StoreOutcomes : EndSessionResume(c, outcome)
  \/ \E S \in SessionKeys : S \in endedSessions /\ HasActiveDelayCall(S)
  \/ \E S \in SessionKeys : S \in endedSessions /\ GetRemainingDelayTimeCall(S)

SpecEndDelay == Init /\ [][NextEndDelay]_vars

\* ---------------------- conversations opened by GET /api/signed-url
NextSignedUrl ==
  \/ \E S \in SessionKeys, supplied \in BOOLEAN, u \in Users : SignedUrlRequest(S, supplied, u)
  \/ \E c \in SuspendedCalls, outcome \in FetchOutcomes : SignedUrlResume(c, outcome)
  \/ \E S \in SessionKeys : EndSessionCall(S, TRUE)
  \/ \E c \in SuspendedCalls, outcome \in StoreOutcomes : EndSessionResume(c, outcome)

SpecSignedUrl == Init /\ [][NextSignedUrl]_vars

\* ------------------------------- transcripts submitted again as they grow
NextResubmit ==
  \/ \E u \in Users : CreateSessionCall(u)
  \/ \E S \in SessionKeys, u \in Users, messages \in Transcripts :
       StoreConversationRequest(S, u, messages)
  \/ \E c \in SuspendedCalls, outcome \in StoreOutcomes : StoreConversationResume(c, outcome)

SpecResubmit == Init /\ [][NextResubmit]_vars

\* ------------------------------------------------------------------ claims

\* C9: once hasActiveDelay(S) has returned false, every later hasActiveDelay(S)
\* returns false and every later getRemainingDelayTime(S) returns 0 until
\* createDelay(S, ...) is called again, and a stored delay whose isActive is
\* false is made active again by nothing but createDelay(S, ...).
C9_DelayMonotonic ==
  /\ [](\A S \in sawInactive :
          /\ (lastOp.op = "hasActiveDelay" /\ lastOp.sid = S) => ~lastOp.ok
          /\ (lastOp.op = "getRemainingDelayTime" /\ lastOp.sid = S) => lastOp.val = 0)
  /\ [][\A S \in DOMAIN pendingDelays :
          (/\ ~pendingDelays[S].isActive
           /\ S \in DOMAIN pendingDelays'
           /\ pendingDelays'[S].isActive)
          => (lastOp'.op = "createDelay" /\ lastOp'.sid = S)]_vars

\* C9 witness: a query on S after hasActiveDelay(S) returned false on an
\* expired record, at a later clock reading.
C9_Witness ==
  \E S \in sawInactive :
    /\ S \in DOMAIN pendingDelays
    /\ ~pendingDelays[S].isActive
    /\ lastOp.op = "getRemainingDelayTime"
    /\ lastOp.sid = S
    /\ lastOp.val = 0
    /\ ~TLeq(lastOp.at, pendingDelays[S].endTime)

\* C10: with a delay record, getRemainingDelayTime returns 0 exactly when
\* now >= endTime at the call, and otherwise the strictly positive
\* ceil((endTime - now) / 1000); with no record it returns 0.
C10_RemainingDelayTime ==
  lastOp.op = "getRemainingDelayTime" =>
    IF lastOp.sid \in DOMAIN pendingDelays
      THEN LET e == pendingDelays[lastOp.sid].endTime IN
             /\ (lastOp.val = 0) <=> TLeq(e, lastOp.at)
             /\ ~TLeq(e, lastOp.at) =>
                  /\ lastOp.val > 0
                  /\ lastOp.val = Ceil(DiffMs(e, lastOp.at), MsPerSec)
                  /\ (lastOp.val - 1) * MsPerSec < DiffMs(e, lastOp.at)
                  /\ DiffMs(e, lastOp.at) <= lastOp.val * MsPerSec
      ELSE lastOp.val = 0

\* C10 witness: a call that returned a positive remainder for a difference
\* that is no whole number of seconds.
C10_Witness ==
  /\ lastOp.op = "getRemainingDelayTime"
  /\ lastOp.sid \in DOMAIN pendingDelays
  /\ lastOp.val > 0
  /\ DiffMs(pendingDelays[lastOp.sid].endTime, lastOp.at) % MsPerSec # 0
\* the reminders of session S that are triggered and not completed
TriggeredOpen(S) ==
  {id \in DOMAIN activeReminders :
     /\ activeReminders[id].sessionId = S
     /\ activeReminders[id].wasTriggered
     /\ ~activeReminders[id].isCompleted}

\* C1: getPendingReminders(S) returns exactly the stored reminders of session S
\* with wasTriggered = true and isCompleted = false.
C1_PendingExact ==
  lastOp.op = "getPendingReminders" => Range(lastOp.ids) = TriggeredOpen(lastOp.sid)

\* C2: for a reminder that stays in the store, wasTriggered and isCompleted
\* never go from true back to false, and wasTriggered is set only by the
\* reminder's timer.
C2_FlagsMonotonic ==
  [][\A id \in DOMAIN activeReminders \cap DOMAIN activeReminders' :
       /\ activeReminders[id].wasTriggered => activeReminders'[id].wasTriggered
       /\ activeReminders[id].isCompleted => activeReminders'[id].isCompleted
       /\ (~activeReminders[id].wasTriggered /\ activeReminders'[id].wasTriggered)
            => (lastOp'.op = "timer" /\ lastOp'.rid = id)]_vars

\* C2 witness: completeReminder called again on a triggered, completed reminder.
C2_Witness ==
  /\ lastOp.op = "completeReminder"
  /\ lastOp.ok
  /\ lastOp.rid \in DOMAIN activeReminders
  /\ activeReminders[lastOp.rid].wasTriggered
  /\ activeReminders[lastOp.rid].isCompleted
  /\ lastOp.rid \notin DOMAIN timers

\* C3: after clearSessionReminders(S) the store holds no reminder of S, and a
\* reminder cleared before its timer callback ran is never triggered and its
\* onTrigger is never invoked, also when its duration had already elapsed.
C3_ClearSuppresses ==
  /\ lastOp.op = "clearSessionReminders" =>
       \A id \in DOMAIN activeReminders : activeReminders[id].sessionId # lastOp.sid
  /\ \A id \in DOMAIN cancelled :
       /\ id \notin DOMAIN activeReminders
       /\ onTriggerCalls[id] = 0

\* C3 witness: a reminder cleared when its duration had elapsed and its
\* callback had not run, with the clock moved on since.
C3_Witness ==
  \E id \in DOMAIN cancelled :
    /\ cancelled[id]
    /\ lastOp.op = "getPendingReminders"
    /\ activeReminders # << >>
EndOps == {"endSession", "/api/end-session"}

\* q is a prefix of r
IsPrefix(q, r) == Len(q) <= Len(r) /\ \A i \in 1..Len(q) : q[i] = r[i]

\* C4: endSession(S) on a live session ends with S removed from activeSessions
\* whether the memory-store call succeeds or fails, and endSession on an id
\* with no live session returns null (it goes on to the store call only for a
\* live session).
C4_EndSessionRemoves ==
  /\ lastOp.op \in EndOps => lastOp.sid \notin DOMAIN activeSessions
  /\ lastOp.op = "endSession.await" => lastOp.sid \in DOMAIN activeSessions

\* C4 witness: endSession returned its summary after a failed store call, the
\* session removed.
C4_Witness ==
  /\ lastOp.op \in EndOps
  /\ lastOp.ok
  /\ lastOp.storeFailed
  /\ lastOp.sid \in endedSessions

\* C5: when the memory-store add rejects during endSession(S), the value
\* endSession returns carries an error indicator.
C5_ErrorIndicator ==
  (lastOp.op \in EndOps /\ lastOp.ok /\ lastOp.storeFailed) => lastOp.err

\* C6: when endSession(S) has returned a summary, no reminder of S created
\* before that return is left in the reminder store (so none of them can be
\* triggered afterwards), also for reminders set while endSession was awaiting
\* the memory store.
C6_EndSessionClearsReminders ==
  (lastOp.op = "endSession" /\ lastOp.ok) =>
    \A id \in DOMAIN activeReminders : activeReminders[id].sessionId # lastOp.sid

\* C7: a sessionId removed by endSession is never live again, and updateSession
\* and getSession on it return not-found from then on.
C7_NoResurrection ==
  /\ endedSessions \cap DOMAIN activeSessions = {}
  /\ (lastOp.op \in {"updateSession", "getSession"} /\ lastOp.sid \in endedSessions)
       => ~lastOp.ok

\* C7 witness: updateSession returned not-found for an ended session while a
\* session created later is live.
C7_Witness ==
  /\ lastOp.op = "updateSession"
  /\ lastOp.sid \in endedSessions
  /\ ~lastOp.ok
  /\ \E T \in DOMAIN activeSessions : T > lastOp.sid

\* C8: for every live session, each new value of memoryIds has the previous
\* value as a prefix.
C8_MemoryIdsAppendOnly ==
  [][\A S \in DOMAIN activeSessions \cap DOMAIN activeSessions' :
       IsPrefix(activeSessions[S].memoryIds, activeSessions'[S].memoryIds)]_vars

\* C11: the delay store holds at most one record per session (the record kept
\* under key S is the one of session S); createDelay(S, d) leaves S with the
\* fresh record (isActive = true, startTime the clock at the call, endTime d
\* seconds later) whether or not S had a record, and leaves the records of all
\* other sessions unchanged.
C11_CreateDelayReplaces ==
  /\ [](\A S \in DOMAIN pendingDelays : pendingDelays[S].sessionId = S)
  /\ [](lastOp.op = "createDelay" =>
          /\ lastOp.sid \in DOMAIN pendingDelays
          /\ LET r == pendingDelays[lastOp.sid] IN
               /\ r.isActive
               /\ r.delaySeconds = lastOp.val
               /\ r.startTime = lastOp.at
               /\ TLeq(AddSeconds(lastOp.at, lastOp.val), r.endTime)
               /\ TLeq(r.endTime, AddSeconds(now, lastOp.val)))
  /\ [][lastOp'.op = "createDelay" =>
          \A T \in (DOMAIN pendingDelays \cup DOMAIN pendingDelays') \ {lastOp'.sid} :
            /\ T \in DOMAIN pendingDelays
            /\ T \in DOMAIN pendingDelays'
            /\ pendingDelays'[T] = pendingDelays[T]]_vars

\* C11 witness: createDelay replaced the record of a session, for a positive
\* duration and at a later clock, while another session keeps an expired
\* record.
C11_Witness ==
  /\ lastOp.op = "createDelay"
  /\ lastOp.prior
  /\ lastOp.val > 0
  /\ lastOp.at # Time(0, 0)
  /\ \E T \in DOMAIN pendingDelays \ {lastOp.sid} : ~pendingDelays[T].isActive

\* C12: updateSession(S, updates) on a live session raises the interaction
\* counter by exactly 1 when updates has no `interactions` and sets it to the
\* supplied value, with no increment, when it has; with no such override the
\* counter equals the number of updateSession calls since createSession; and
\* nothing but an updateSession call changes the counter.
C12_InteractionCount ==
  /\ [](\A S \in DOMAIN activeSessions :
          ~updateCalls[S].overridden => activeSessions[S].interactions = updateCalls[S].n)
  /\ [][\A S \in DOMAIN activeSessions \cap DOMAIN activeSessions' :
          IF updateCalls'[S].n = updateCalls[S].n + 1
            THEN /\ lastOp'.sid = S
                 /\ IF lastOp'.override
                      THEN activeSessions'[S].interactions = lastOp'.val
                      ELSE activeSessions'[S].interactions = activeSessions[S].interactions + 1
            ELSE /\ updateCalls'[S].n = updateCalls[S].n
                 /\ activeSessions'[S].interactions = activeSessions[S].interactions]_vars

\* C12 witness: an updateSession call that supplied a count other than the
\* incremented one, while another session, never overridden, has counted its
\* calls.
C12_Witness ==
  /\ lastOp.op = "updateSession"
  /\ lastOp.ok
  /\ lastOp.override
  /\ updateCalls[lastOp.sid].n > 1
  /\ activeSessions[lastOp.sid].interactions = 0
  /\ \E T \in DOMAIN activeSessions :
       /\ ~updateCalls[T].overridden
       /\ updateCalls[T].n > 1
       /\ activeSessions[T].interactions = updateCalls[T].n

NotFoundOps == {"updateSession", "getSession", "endSession", "completeReminder"}

\* C13: updateSession, getSession and endSession on a sessionId with no live
\* record return null, and completeReminder on an unknown reminderId returns
\* false; such a call leaves the session, reminder and delay stores and the
\* timers unchanged, and endSession then makes no call to the memory store
\* (only a call on a live session goes on to it).
C13_NotFound ==
  /\ []((lastOp.op \in {"updateSession", "getSession"}
           /\ lastOp.sid \notin DOMAIN activeSessions) => ~lastOp.ok)
  /\ []((lastOp.op = "completeReminder" /\ lastOp.rid \notin DOMAIN activeReminders)
           => ~lastOp.ok)
  /\ [][(lastOp'.op = "endSession.await" /\ calls' # calls)
          => lastOp'.sid \in DOMAIN activeSessions]_vars
  /\ [][(lastOp'.op \in NotFoundOps /\ ~lastOp'.ok)
          => UNCHANGED <<activeSessions, activeReminders, timers, pendingDelays, calls,
                         nextMemoryId>>]_vars

\* C13 witness: endSession returned null for an ended session while a session
\* is live, a reminder is stored and another endSession is awaiting the store.
C13_Witness ==
  /\ lastOp.op = "endSession"
  /\ ~lastOp.ok
  /\ lastOp.sid \in endedSessions
  /\ activeSessions # << >>
  /\ activeReminders # << >>
  /\ calls # EmptyBag

\* C14: completeReminder is idempotent: a completeReminder(id) on a stored
\* reminder that is already completed returns true and leaves isCompleted
\* true, and a second completeReminder(id) made right after the first leaves
\* the reminder store and the timers exactly as the first left them.
C14_CompleteIdempotent ==
  /\ []((lastOp.op = "completeReminder" /\ lastOp.rid \in DOMAIN activeReminders) =>
          /\ lastOp.ok
          /\ activeReminders[lastOp.rid].isCompleted)
  /\ [][(/\ lastOp.op = "completeReminder"
          /\ lastOp.ok
          /\ lastOp'.op = "completeReminder"
          /\ lastOp'.rid = lastOp.rid)
          => /\ lastOp'.ok
             /\ activeReminders' = activeReminders
             /\ timers' = timers
             /\ onTriggerCalls' = onTriggerCalls]_vars

\* C14 witness: completeReminder returned true on a stored reminder it found
\* already completed.
C14_Witness ==
  /\ lastOp.op = "completeReminder"
  /\ lastOp.prior
  /\ lastOp.ok
  /\ lastOp.rid \in DOMAIN activeReminders
  /\ activeReminders[lastOp.rid].isCompleted

\* C15: a reminder of session S whose timer has fired with its duration
\* elapsed is in getPendingReminders(S), with the task given to setReminder,
\* as long as it is not completed; once completeReminder was called on it, no
\* getPendingReminders(S) contains it.
C15_ReminderFlow ==
  lastOp.op = "getPendingReminders" =>
    \A id \in DOMAIN activeReminders :
      activeReminders[id].sessionId = lastOp.sid =>
        /\ (/\ activeReminders[id].wasTriggered
            /\ TLeq(activeReminders[id].reminderTime, lastOp.at)
            /\ ~activeReminders[id].isCompleted)
             => (id \in Range(lastOp.ids) /\ activeReminders[id].task \in Tasks)
        /\ activeReminders[id].isCompleted => id \notin Range(lastOp.ids)

\* C15 witness: a getPendingReminders(S) that leaves out a reminder of S that
\* was triggered after a positive duration and then completed, and returns
\* another one.
C15_Witness ==
  /\ lastOp.op = "getPendingReminders"
  /\ lastOp.ids # << >>
  /\ \E id \in DOMAIN activeReminders :
       /\ activeReminders[id].sessionId = lastOp.sid
       /\ activeReminders[id].durationInSeconds = MaxReminderSeconds
       /\ activeReminders[id].wasTriggered
       /\ activeReminders[id].isCompleted
       /\ id \notin Range(lastOp.ids)

\* C16: a reminder is triggered, and its onTrigger invoked, no earlier than
\* durationInSeconds after the setReminder call that created it.
C16_NotBeforeDuration ==
  \A id \in DOMAIN activeReminders :
    (activeReminders[id].wasTriggered \/ onTriggerCalls[id] > 0)
      => TLeq(activeReminders[id].reminderTime, now)

\* C17: with every due timer eventually run, a stored reminder whose duration
\* has elapsed is eventually triggered unless clearSessionReminders removes
\* it, whatever the callers do in the meantime (a completeReminder before the
\* timer fires included).
C17_EventuallyTriggered ==
  \A id \in 1..MaxReminders :
    (id \in DOMAIN activeReminders /\ TLeq(activeReminders[id].reminderTime, now))
      ~> (id \notin DOMAIN activeReminders \/ activeReminders[id].wasTriggered)

\* C18: a stored reminder with isCompleted = true has wasTriggered = true.
C18_CompletedImpliesTriggered ==
  \A id \in DOMAIN activeReminders :
    activeReminders[id].isCompleted => activeReminders[id].wasTriggered

\* C19: the getPendingReminders(S) made right after a setReminder for S with
\* durationInSeconds = 0 has returned, with no other event in between,
\* contains the new reminder.
C19_ZeroDurationPending ==
  [][(/\ lastOp.op = "setReminder"
      /\ lastOp.rid \in DOMAIN activeReminders
      /\ activeReminders[lastOp.rid].durationInSeconds = 0
      /\ lastOp'.op = "getPendingReminders"
      /\ lastOp'.sid = lastOp.sid)
      => lastOp.rid \in Range(lastOp'.ids)]_vars

\* C20: no delay record with a zero or negative delaySeconds and no reminder
\* with a zero or negative durationInSeconds is ever stored (such a call is
\* rejected before any state is changed).
C20_RejectsNonPositive ==
  /\ \A S \in DOMAIN pendingDelays : pendingDelays[S].delaySeconds > 0
  /\ \A id \in DOMAIN activeReminders : activeReminders[id].durationInSeconds > 0

\* C21: an onTrigger callback that throws does not escape the timer firing as
\* an unhandled error (so the other reminders still fire and the stores stay
\* usable).
C21_CallbackIsolated == Running

\* C22: onTrigger is invoked at most once per reminder, only in that
\* reminder's timer firing, only when the reminder is then in the store and
\* not completed, and only after wasTriggered was set in the stored record.
C22_OnTriggerOnce ==
  /\ [](\A id \in DOMAIN onTriggerCalls : onTriggerCalls[id] <= 1)
  /\ [][\A id \in DOMAIN onTriggerCalls :
          onTriggerCalls'[id] # onTriggerCalls[id] =>
            /\ lastOp'.op = "timer"
            /\ lastOp'.rid = id
            /\ id \in DOMAIN timers
            /\ id \notin DOMAIN timers'
            /\ id \in DOMAIN activeReminders
            /\ ~activeReminders[id].isCompleted
            /\ id \in DOMAIN activeReminders'
            /\ activeReminders'[id].wasTriggered]_vars

\* C22 witness: one reminder's onTrigger was invoked, and the timer of
\* another, completed before it fired, has run without invoking it.
C22_Witness ==
  \E id, other \in DOMAIN activeReminders :
    /\ onTriggerCalls[id] = 1
    /\ activeReminders[id].wasTriggered
    /\ activeReminders[other].isCompleted
    /\ other \notin DOMAIN timers
    /\ onTriggerCalls[other] = 0

\* C23: an endSession call hands its summary to the memory store's
\* storeConversation at most once (one store call is begun when endSession
\* reaches its await, none when it resumes), and an endSession call that
\* returns not-found begins none.
C23_StoreAtMostOnce ==
  [][/\ (lastOp'.op = "endSession.await" /\ calls' # calls)
          => BagCardinality(calls') = BagCardinality(calls) + 1
     /\ (lastOp'.op \in EndOps /\ ~lastOp'.ok) => calls' = calls
     /\ (lastOp'.op \in EndOps /\ lastOp'.ok /\ calls' # calls)
          => BagCardinality(calls') = BagCardinality(calls) - 1]_vars

\* C23 witness: an endSession has returned its summary while another
\* endSession is still awaiting its one store call.
C23_Witness ==
  /\ lastOp.op \in EndOps
  /\ lastOp.ok
  /\ BagCardinality(calls) = 1
  /\ Cardinality(endedSessions) = 1

\* C24: every reminder and every delay record is created for a sessionId that
\* is live in the session registry at the moment of its creation.
C24_SessionLiveAtCreation ==
  [][/\ \A id \in DOMAIN activeReminders' \ DOMAIN activeReminders :
          activeReminders'[id].sessionId \in DOMAIN activeSessions
     /\ (lastOp'.op = "createDelay" /\ pendingDelays' # pendingDelays)
          => lastOp'.sid \in DOMAIN activeSessions]_vars

\* the tokens of text, lower-cased
LowerText(text) == [i \in 1..Len(text) |-> [w |-> Lower(text[i].w), digits |-> text[i].digits]]

\* phrase ph stands somewhere in text
Contains(text, ph) ==
  \E i \in 1..Len(text) :
    /\ i + Len(ph) - 1 <= Len(text)
    /\ SubSeq(LowerText(text), i, i + Len(ph) - 1) = ph

\* the numbers N of the supported delay phrasings that stand in text
ContainedDelays(text) ==
  {AmountValue(ds) : ds \in {d \in Amounts :
     \E sec \in Seconds : \E ph \in DelayPhrasings(d, sec) : Contains(text, ph)}}

\* C26: for a text that contains a supported delay phrasing,
\* processDelayInstructions returns hasDelay = true with the N of a phrasing
\* the text contains; for a text that contains none it returns hasDelay =
\* false and delaySeconds = 0.
C26_DelayParsed ==
  (lastOp.op = "/api/process-message" /\ ~lastOp.err) =>
    IF ContainedDelays(lastOp.text) # {}
      THEN lastOp.ok /\ lastOp.val \in ContainedDelays(lastOp.text)
      ELSE ~lastOp.ok /\ lastOp.val = 0

\* C26 witness: "10 seconds ke baad jawab do please" gave a delay of 10
\* seconds.
C26_Witness ==
  /\ lastOp.op = "/api/process-message"
  /\ lastOp.ok
  /\ lastOp.val = 10
  /\ Contains(lastOp.text, <<Num(<<1, 0>>), Word("seconds"), Word("ke"), Word("baad"),
                             Word("jawab"), Word("do")>>)
  /\ lastOp.text[Len(lastOp.text)] = Word("please")
  /\ pendingDelays[1].delaySeconds = 10

\* the seconds in a unit
UnitSeconds(unit) ==
  CASE unit \in {"second", "seconds"} -> 1
    [] unit \in {"minute", "minutes", "MINUTES"} -> 60
    [] unit \in {"hour", "hours"} -> 3600

\* C27: a reminder phrase with amount N and unit second(s), minute(s) or
\* hour(s) sets a reminder with durationInSeconds N, N * 60 or N * 3600 and
\* with the task text the pattern captured; a text that matches no reminder
\* pattern sets no reminder.
C27_UnitConversion ==
  /\ [](lastOp.op = "checkForReminderRequests" =>
          \A form \in 1..3, ds \in Amounts, unit \in TextUnits, task \in TaskTexts :
            lastOp.text = ReminderPhrase(form, ds, unit, task) =>
              /\ lastOp.ok
              /\ activeReminders[lastOp.rid].durationInSeconds
                   = AmountValue(ds) * UnitSeconds(unit)
              /\ activeReminders[lastOp.rid].task = task)
  /\ []((lastOp.op = "checkForReminderRequests" /\ lastOp.text \in NoReminderTexts)
          => ~lastOp.ok)
  /\ [][(lastOp'.op = "checkForReminderRequests" /\ ~lastOp'.ok)
          => UNCHANGED <<activeReminders, timers>>]_vars

\* C27 witness: "10 MINUTES baad chai yaad dila dena" set a reminder of 600
\* seconds for "chai", and a later text that is no request set none.
C27_Witness ==
  /\ lastOp.op = "checkForReminderRequests"
  /\ ~lastOp.ok
  /\ lastOp.text \in NoReminderTexts
  /\ 1 \in DOMAIN activeReminders
  /\ activeReminders[1].durationInSeconds = 600
  /\ activeReminders[1].task = <<Word("chai")>>

RECURSIVE Trim(_)
\* a token sequence without the spaces at its ends
Trim(q) ==
  IF q = << >> THEN q
  ELSE IF Head(q) = Gap THEN Trim(Tail(q))
  ELSE IF q[Len(q)] = Gap THEN Trim(SubSeq(q, 1, Len(q) - 1))
  ELSE q

\* C28: the task stored for a parsed reminder is the text the pattern
\* captured with the whitespace at its ends removed.
C28_TaskTrimmed ==
  (lastOp.op = "checkForReminderRequests" /\ lastOp.ok) =>
    activeReminders[lastOp.rid].task = Trim(reminderMatch(lastOp.text).task)

\* the matches of the three reminder patterns in text, in table order
ReminderMatches(text) ==
  << matchToEnd(text, reminderPattern1),
     matchToEnd(text, reminderPattern2),
     matchAround(text, reminderPattern3, reminderPattern3End) >>

\* the least number of a set of numbers
Least(K) == CHOOSE k \in K : \A j \in K : k <= j

\* C25: when a text matches several patterns of the delay table, or of the
\* three reminder patterns, the result is the one extracted by the first of
\* them in table order, wherever in the text each of them matches.
C25_FirstPatternWins ==
  /\ (lastOp.op = "/api/process-message" /\ lastOp.ok) =>
       LET K == {k \in 1..Len(allPatterns) : match(lastOp.text, allPatterns[k]) # 0}
           p == allPatterns[Least(K)]
       IN lastOp.val = AmountValue(Group1(lastOp.text, p, match(lastOp.text, p)))
  /\ (lastOp.op = "checkForReminderRequests" /\ lastOp.ok) =>
       LET R == ReminderMatches(lastOp.text)
           m == R[Least({k \in 1..3 : R[k].found})]
       IN /\ activeReminders[lastOp.rid].durationInSeconds
               = AmountValue(m.amount) * UnitSeconds(m.unit)
          /\ activeReminders[lastOp.rid].task = m.task

\* C25 witness: a text whose first words match a later pattern of the delay
\* table for 10 seconds gave the 5 seconds of an earlier pattern that matches
\* further on, after a reminder text that two patterns match was parsed.
C25_Witness ==
  /\ lastOp.op = "/api/process-message"
  /\ lastOp.val = 5
  /\ \E k \in 1..Len(allPatterns) :
       /\ match(lastOp.text, allPatterns[k]) = 1
       /\ Group1(lastOp.text, allPatterns[k], 1) = <<1, 0>>
       /\ \E j \in 1..(k - 1) : match(lastOp.text, allPatterns[j]) > 1
  /\ 1 \in DOMAIN activeReminders
  /\ activeReminders[1].durationInSeconds = 10

\* C29: every stored delay record ends exactly delaySeconds after its
\* startTime: endTime - startTime = delaySeconds * 1000 ms, whatever the clock
\* does during the call.
C29_DelayEndExact ==
  \A S \in DOMAIN pendingDelays :
    DiffMs(pendingDelays[S].endTime, pendingDelays[S].startTime)
      = pendingDelays[S].delaySeconds * MsPerSec

\* C30: every reminder record has reminderTime = createdAt + durationInSeconds.
C30_ReminderTimeExact ==
  \A id \in DOMAIN activeReminders :
    activeReminders[id].reminderTime
      = AddSeconds(activeReminders[id].createdAt, activeReminders[id].durationInSeconds)

\* the reminder records and timers that a step leaves as they are
KeptReminders(ids) ==
  \A i \in ids :
    /\ i \in DOMAIN activeReminders'
    /\ activeReminders'[i] = activeReminders[i]
    /\ i \in DOMAIN timers => (i \in DOMAIN timers' /\ timers'[i] = timers[i])

\* a reminder record changed in its two flags at most
FlagsOnly(i) ==
  /\ i \in DOMAIN activeReminders'
  /\ [activeReminders'[i] EXCEPT !.isCompleted = FALSE, !.wasTriggered = FALSE]
       = [activeReminders[i] EXCEPT !.isCompleted = FALSE, !.wasTriggered = FALSE]

\* C31: a timer firing, completeReminder or clearSessionReminders(S), whatever
\* createSession, updateSession, setReminder and createDelay calls of other
\* sessions it is interleaved with, changes no session record, no delay record
\* and no reminder of another session: only the flags of the reminder fired or
\* completed, or the reminders of S, change.
C31_CrossSessionIsolation ==
  [][ /\ lastOp'.op \in {"timer", "completeReminder"} =>
           /\ activeSessions' = activeSessions
           /\ pendingDelays' = pendingDelays
           /\ KeptReminders(DOMAIN activeReminders \ {lastOp'.rid})
           /\ lastOp'.rid \in DOMAIN activeReminders => FlagsOnly(lastOp'.rid)
           /\ DOMAIN activeReminders' = DOMAIN activeReminders
      /\ lastOp'.op = "clearSessionReminders" =>
           /\ activeSessions' = activeSessions
           /\ pendingDelays' = pendingDelays
           /\ KeptReminders({i \in DOMAIN activeReminders :
                               activeReminders[i].sessionId # lastOp'.sid})
           /\ DOMAIN activeReminders' \subseteq DOMAIN activeReminders
    ]_vars

\* C31 witness: clearSessionReminders(S) has removed a reminder of S while
\* another session T, updated since its creation, has a delay and a reminder
\* whose timer has fired.
C31_Witness ==
  /\ lastOp.op = "clearSessionReminders"
  /\ \E i \in DOMAIN cancelled \cup DOMAIN onTriggerCalls : i \notin DOMAIN activeReminders
  /\ \E T \in DOMAIN activeSessions \cap DOMAIN pendingDelays :
       /\ T # lastOp.sid
       /\ activeSessions[T].interactions > 0
       /\ \E i \in DOMAIN activeReminders :
            activeReminders[i].sessionId = T /\ activeReminders[i].wasTriggered

\* C32: createSession(userId) adds exactly one live session, under an id that
\* no live session has, with interactions 0, no memory ids and lastActiveTime
\* equal to startTime, and leaves every other session record as it was.
C32_CreateSessionFrame ==
  [][ nextSessionId' # nextSessionId =>
        LET S == lastOp'.sid IN
          /\ lastOp'.op = "createSession"
          /\ S \notin DOMAIN activeSessions
          /\ DOMAIN activeSessions' = DOMAIN activeSessions \cup {S}
          /\ activeSessions'[S].interactions = 0
          /\ activeSessions'[S].memoryIds = << >>
          /\ activeSessions'[S].startTime = now
          /\ activeSessions'[S].lastActiveTime = activeSessions'[S].startTime
          /\ \A T \in DOMAIN activeSessions : activeSessions'[T] = activeSessions[T]
    ]_vars

\* C32 witness: a session was created, after the clock had moved on, beside a
\* live session that had been updated and after another had ended.
C32_Witness ==
  /\ lastOp.op = "createSession"
  /\ lastOp.sid \in DOMAIN activeSessions
  /\ activeSessions[lastOp.sid].startTime # Time(0, 0)
  /\ \E T \in DOMAIN activeSessions :
       /\ T # lastOp.sid
       /\ activeSessions[T].interactions > 0
       /\ activeSessions[T].startTime # activeSessions[lastOp.sid].startTime

\* C33: the isActive flag of a stored delay goes from true to false only in a
\* hasActiveDelay or getRemainingDelayTime call for its session that reads a
\* clock at or past endTime: not as time passes, not in a call for another
\* session. Until such a call the record stays active past its endTime.
C33_LazyExpiry ==
  [][ \A S \in DOMAIN pendingDelays :
        ( /\ pendingDelays[S].isActive
          /\ S \in DOMAIN pendingDelays'
          /\ ~pendingDelays'[S].isActive )
        => /\ lastOp'.op \in {"hasActiveDelay", "getRemainingDelayTime"}
           /\ lastOp'.sid = S
           /\ lastOp'.at = now
           /\ now' = now
           /\ TLeq(pendingDelays[S].endTime, now)
    ]_vars

\* C33 witness: a query has just marked the delay of one session expired,
\* while the delay of another session, past its endTime too, is still marked
\* active.
C33_Witness ==
  /\ lastOp.op \in {"hasActiveDelay", "getRemainingDelayTime"}
  /\ lastOp.sid \in DOMAIN pendingDelays
  /\ ~pendingDelays[lastOp.sid].isActive
  /\ \E T \in DOMAIN pendingDelays :
       /\ T # lastOp.sid
       /\ pendingDelays[T].isActive
       /\ TLeq(pendingDelays[T].endTime, now)
       /\ pendingDelays[T].endTime # now

\* C34: in memory-manager.js, once endSession(S) on a live session S is over,
\* S is no longer in activeSessions, also when storing the summary failed.
C34_EndSessionRemovesMM ==
  (lastOp.op = "endSession" /\ lastOp.ok) => lastOp.sid \notin DOMAIN activeSessions

\* C35: of the endSession(S) calls made for one session S, overlapping or not,
\* at most one hands a summary to the memory store and goes on to return it:
\* no two calls for one session are waiting for the memory store together,
\* each with its summary.
C35_EndSessionOnce ==
  \A c \in BagToSet(calls) : c.kind = "endSession" =>
    /\ calls[c] = 1
    /\ \A e \in BagToSet(calls) : (e.kind = "endSession" /\ e.sid = c.sid) => e = c

\* C36: in every /api/check-delay response hasActiveDelay is true exactly when
\* remainingSeconds is above 0.
C36_CheckDelayConsistent ==
  (lastOp.op = "/api/check-delay" /\ ~lastOp.err) => (lastOp.ok <=> lastOp.val > 0)

\* C37: whatever timer firings and setReminder calls come between the
\* /api/check-reminders requests, a reminder is in the pendingReminders of at
\* most one response.
C37_ReturnedOnce ==
  \A id \in DOMAIN returned : returned[id] <= 1

\* C37 witness: a request for the session of a reminder that an earlier
\* response held returns nothing, the reminder being still stored.
C37_Witness ==
  /\ lastOp.op = "/api/check-reminders"
  /\ ~lastOp.err
  /\ lastOp.ids = << >>
  /\ \E id \in DOMAIN returned \cap DOMAIN activeReminders :
       /\ returned[id] = 1
       /\ activeReminders[id].sessionId = lastOp.sid
       /\ activeReminders[id].wasTriggered

\* C38: once endSession(S), or the /api/end-session handler, is over, no delay
\* of S is in effect: hasActiveDelay(S) returns false and
\* getRemainingDelayTime(S) returns 0.
C38_NoDelayAfterEnd ==
  /\ (lastOp.op = "hasActiveDelay" /\ lastOp.sid \in endedSessions) => ~lastOp.ok
  /\ (lastOp.op = "getRemainingDelayTime" /\ lastOp.sid \in endedSessions) => lastOp.val = 0

\* C39: after a successful /api/signed-url request the sessionId of the
\* response, which is the key the conversation is stored under in
\* activeConversations, is a live session of sessionManager.activeSessions,
\* whether the client supplied the sessionId or not.
C39_ConversationOfLiveSession ==
  (lastOp.op = "/api/signed-url" /\ lastOp.ok) =>
    /\ lastOp.sid \in DOMAIN activeConversations
    /\ lastOp.sid \in DOMAIN activeSessions

\* the content of the last message of a transcript that has role user
LastUserContent(messages) ==
  LET users == {i \in 1..Len(messages) : messages[i].role = "user"}
  IN IF users = {} THEN << >>
     ELSE messages[CHOOSE i \in users : \A j \in users : j <= i].content

\* C40: /api/store-conversation scans the last message with role user of the
\* transcript submitted: it schedules a reminder exactly when that message
\* holds a reminder request, so a transcript submitted again with a further
\* user message does not schedule the reminder of an earlier message again.
C40_LastUserMessageScanned ==
  [][ (lastOp'.op = "/api/store-conversation.await" /\ calls' # calls) =>
        ( nextReminderId' # nextReminderId
          <=> reminderMatch(LastUserContent(lastOp'.messages)).found )
    ]_vars
====
